---- MODULE Spec2Model ----
(***************************************************************************)
(* A model of the Hour Jungle CRM tool server (mcp-server): the quote      *)
(* lifecycle and the quote -> contract conversion of tools/quote_tools.py, *)
(* the payment reminder engine of tools/line_tools.py and the tool         *)
(* registry of main.py.                                                    *)
(*                                                                         *)
(* The records live behind the PostgREST data gateway.  Every handler is   *)
(* a coroutine: each awaited gateway request is one atomic step, and the   *)
(* steps of different invocations interleave freely.  A gateway request    *)
(* may fail (raise_for_status), which the handlers turn into a raised      *)
(* Exception.                                                              *)
(***************************************************************************)
EXTENDS Integers, Sequences, FiniteSets, TLC

\* ------------------------------------------------------------------ bounds
\* Invocations of the two-request handlers (convert, delete) in one run.
MaxCalls == 2

VARIABLES
    quotes,     \* the quotes table: quote id -> record (DOMAIN = the rows present)
    quoteSeq,   \* the last quote id handed out
    contracts,  \* the contracts table: a sequence, contract id = position
    calls,      \* the invocations of convert_quote_to_contract / delete_quote
    last,       \* the gateway step taken last: which handler, which quote, outcome
    payments,   \* the rows of the view v_payments_due the bulk GET returns
    lineToken,  \* whether LINE_CHANNEL_ACCESS_TOKEN is configured
    bulk,       \* the invocation of send_bulk_payment_reminders
    pushes,     \* the calls of send_line_push made so far
    outcomes,   \* what each send_payment_reminder call of the bulk run came to
    reminder,   \* the single reminder (payment or renewal) sent last, if any
    responses,  \* per invocation surface of the registry, the request served last
    listing     \* what the list_quotes call made last returned, if any

quoteVars == <<quotes, quoteSeq, contracts, calls, last>>
lineVars == <<payments, lineToken, bulk, pushes, outcomes, reminder>>
regVars == <<responses>>
viewVars == <<listing>>

\* The quote under study.  Every request on quotes is filtered by id = eq.<id>
\* and touches that row alone, so the rows are independent of one another and
\* one id, taken from the serial the data layer hands out, stands for any.
QuoteIds == {1}
CallIds == 1..MaxCalls

\* ------------------------------------------------------------ optional values
\* A Python argument that may be None: <<>> is None, <<v>> is the value v.
None == <<>>
Some(v) == <<v>>
IsNone(o) == o = <<>>
Get(o) == o[1]

\* ---------------------------------------------------------------------- dates
\* An ISO date string is [day, time]: the day number and whether the string
\* carries a time part ("2025-01-01T10:00:00").  date.today().isoformat().
Today == [day |-> 100, time |-> FALSE]

\* Dates the callers and the rows use.
Day50 == [day |-> 50, time |-> FALSE]
Day10 == [day |-> 10, time |-> FALSE]
Day10Noon == [day |-> 10, time |-> TRUE]
Day400 == [day |-> 400, time |-> FALSE]

\* datetime.fromisoformat(s) + timedelta(days = n), then strftime("%Y-%m-%d"):
\* the day moves by n and the time part is dropped by the format.
AddDaysFormat(s, n) == [day |-> s.day + n, time |-> FALSE]

\* date.today() + timedelta(days = n), then isoformat().
TodayPlus(n) == [day |-> Today.day + n, time |-> FALSE]

\* ---------------------------------------------------------------------- money
\* item.get("amount", 0)
ItemAmount(item) == IF "amount" \in DOMAIN item THEN item.amount ELSE 0

RECURSIVE SumAmounts(_)
\* sum(item.get("amount", 0) for item in items)
SumAmounts(items) ==
    IF items = <<>> THEN 0 ELSE ItemAmount(Head(items)) + SumAmounts(Tail(items))

\* Rounding with a tie going up, as floor(n / d + 0.5) would.
RoundHalfUp(n, d) == (2 * n + d) \div (2 * d)

\* Python's round(n / d) for integers n and d > 0: to the nearest integer,
\* a tie going to the even neighbour.
PyRound(n, d) ==
    LET q == n \div d
        r == n % d
    IN  IF 2 * r < d THEN q
        ELSE IF 2 * r > d THEN q + 1
        ELSE IF q % 2 = 0 THEN q ELSE q + 1

\* ------------------------------------------------------------- dict helpers
\* A request body is a function from field names to values, like the dict.
\* PATCH: the fields of the body overwrite the row's, the others are kept.
\* (Fields of the body that are columns this model does not hold are dropped.)
Patch(row, body) ==
    [k \in DOMAIN row |-> IF k \in DOMAIN body THEN body[k] ELSE row[k]]

\* dict update: d | e
Merge(d, e) ==
    [k \in DOMAIN d \cup DOMAIN e |-> IF k \in DOMAIN e THEN e[k] ELSE d[k]]

\* The timestamp datetime.now().isoformat() writes; a column never written is "null".
Now == "now"
Null == "null"

\* -------------------------------------------------------------- list_quotes
\* Rows of the view v_quotes returned to one list_quotes call.
MaxRows == 3

\* stats as list_quotes starts it.
ZeroStats == [draft |-> 0, sent |-> 0, accepted |-> 0, expired |-> 0]

\* The body of the loop for one row q: the counter named by the status, if
\* there is one, then the expired counter for a row flagged is_expired whose
\* status is none of accepted, converted, rejected.
CountRow(stats, q) ==
    LET byStatus == IF q.status \in DOMAIN stats
                      THEN [stats EXCEPT ![q.status] = @ + 1]
                      ELSE stats
    IN  IF q.is_expired /\ q.status \notin {"accepted", "converted", "rejected"}
          THEN [byStatus EXCEPT !.expired = @ + 1]
          ELSE byStatus

RECURSIVE CountRows(_, _)
\* for q in quotes: ...
CountRows(stats, rows) ==
    IF rows = <<>> THEN stats ELSE CountRows(CountRow(stats, Head(rows)), Tail(rows))

\* list_quotes: the GET of v_quotes, then the counters; a failing GET raises.
ListQuotes(rows, ok) ==
    /\ listing' = IF ok
                    THEN Some([ raised |-> FALSE, count |-> Len(rows),
                                stats |-> CountRows(ZeroStats, rows), quotes |-> rows ])
                    ELSE Some([ raised |-> TRUE, count |-> 0,
                                stats |-> ZeroStats, quotes |-> <<>> ])
    /\ UNCHANGED <<quoteVars, lineVars, regVars>>

\* ------------------------------------------------------------- create_quote
valid_days_default == 30

NewQuote(a) ==
    LET items == a.items
        subtotal == SumAmounts(items)
        total_amount == subtotal - a.discount_amount
    IN  [ status |-> "draft",
          items |-> items,
          subtotal |-> subtotal,
          discount_amount |-> a.discount_amount,
          total_amount |-> total_amount,
          deposit_amount |-> a.deposit_amount,
          contract_months |-> a.contract_months,
          proposed_start_date |-> a.proposed_start_date,
          valid_from |-> Today,
          valid_until |-> TodayPlus(valid_days_default),
          \* columns the insert leaves to their defaults
          converted_contract_id |-> 0,
          converted_at |-> Null,
          sent_at |-> Null,
          viewed_at |-> Null,
          responded_at |-> Null,
          internal_notes |-> None ]

Step(op, qid, result, keys) ==
    [op |-> op, qid |-> qid, result |-> result, keys |-> keys]

CreateQuote(a, ok) ==
    /\ quoteSeq + 1 \in QuoteIds
    /\ IF ok
         THEN LET id == quoteSeq + 1
              IN  /\ quotes' = [q \in DOMAIN quotes \cup {id} |->
                                   IF q = id THEN NewQuote(a) ELSE quotes[q]]
                  /\ quoteSeq' = id
                  /\ last' = Step("create_quote", id, "Success", DOMAIN NewQuote(a))
         ELSE /\ UNCHANGED <<quotes, quoteSeq>>
              /\ last' = Step("create_quote", 0, "Raised", {})
    /\ UNCHANGED <<contracts, calls, lineVars, regVars, viewVars>>

\* ------------------------------------------------------------- update_quote
\* The allow-list without the status.
allowed_fields_without_status ==
    { "customer_id", "customer_name", "customer_phone", "customer_email",
      "company_name", "contract_type", "plan_name", "contract_months",
      "proposed_start_date", "items", "subtotal", "discount_amount",
      "discount_note", "tax_amount", "total_amount", "deposit_amount",
      "valid_from", "valid_until", "internal_notes", "customer_notes" }

allowed_fields ==
    { "customer_id", "customer_name", "customer_phone", "customer_email",
      "company_name", "contract_type", "plan_name", "contract_months",
      "proposed_start_date", "items", "subtotal", "discount_amount",
      "discount_note", "tax_amount", "total_amount", "deposit_amount",
      "valid_from", "valid_until", "status", "internal_notes", "customer_notes" }

\* No filter: every key supplied goes into the request body.
FilterNothing(updates) == updates

\* {k: v for k, v in updates.items() if k in allowed_fields}
FilterAllowed(updates) ==
    [k \in DOMAIN updates \cap allowed_fields |-> updates[k]]

\* filtered_updates.get("discount_amount", 0)
UpdateDiscount(filtered) ==
    IF "discount_amount" \in DOMAIN filtered THEN filtered.discount_amount ELSE 0

\* The recomputation update_quote does when the (list) items are updated.
Recompute(filtered) ==
    IF "items" \in DOMAIN filtered
      THEN LET subtotal == SumAmounts(filtered.items)
           IN  Merge(filtered, [ subtotal |-> subtotal,
                                 total_amount |-> subtotal - UpdateDiscount(filtered) ])
      ELSE filtered

\* The step of an update_quote call: supplied holds the keys the caller gave.
UpdateStep(q, updates, result, keys) ==
    Merge(Step("update_quote", q, result, keys), [supplied |-> DOMAIN updates])

UpdateQuote(q, updates, ok) ==
    LET filtered == FilterAllowed(updates)
        body == Recompute(filtered)
    IN  /\ IF DOMAIN filtered = {}
             THEN \* raise ValueError before any request
                  /\ last' = UpdateStep(q, updates, "NoValidFields", {})
                  /\ UNCHANGED quotes
             ELSE IF ~ok
             THEN /\ last' = UpdateStep(q, updates, "Raised", DOMAIN body)
                  /\ UNCHANGED quotes
             ELSE IF q \notin DOMAIN quotes
             THEN \* the PATCH matches no row: result is []
                  /\ last' = UpdateStep(q, updates, "NotFound", DOMAIN body)
                  /\ UNCHANGED quotes
             ELSE /\ quotes' = [quotes EXCEPT ![q] = Patch(@, body)]
                  /\ last' = UpdateStep(q, updates, "Success", DOMAIN body)
        /\ UNCHANGED <<quoteSeq, contracts, calls, lineVars, regVars, viewVars>>

\* ------------------------------------------------------ update_quote_status
\* The list of statuses with expired left out.
valid_statuses_without_expired ==
    {"draft", "sent", "viewed", "accepted", "rejected", "converted"}

valid_statuses ==
    {"draft", "sent", "viewed", "accepted", "rejected", "expired", "converted"}

\* "if notes:" takes None and the empty string alike.
Falsy(notes) == IsNone(notes) \/ Get(notes) = ""

\* update_data with responded_at stamped whatever the status.
StatusUpdateDataStampsResponse(status, notes) ==
    LET stamped == [status |-> status, responded_at |-> Now]
    IN  IF Falsy(notes) THEN stamped ELSE Merge(stamped, [internal_notes |-> notes])

\* update_data: the status, the timestamp that goes with it, the notes if any.
StatusUpdateData(status, notes) ==
    LET base == [status |-> status]
        stamped ==
            IF status = "sent" THEN Merge(base, [sent_at |-> Now])
            ELSE IF status = "viewed" THEN Merge(base, [viewed_at |-> Now])
            ELSE IF status \in {"accepted", "rejected"}
              THEN Merge(base, [responded_at |-> Now])
            ELSE base
    IN  IF Falsy(notes) THEN stamped ELSE Merge(stamped, [internal_notes |-> notes])

\* update_quote_status with a transition rule: a converted quote is left alone.
UpdateQuoteStatusGuarded(q, status, notes, ok) ==
    LET update_data == StatusUpdateData(status, notes)
        step(result) ==
            Merge(Step("update_quote_status", q, result, DOMAIN update_data),
                  [status |-> status])
    IN  /\ IF ~ok
             THEN last' = step("Raised") /\ UNCHANGED quotes
             ELSE IF q \notin DOMAIN quotes
             THEN last' = step("NotFound") /\ UNCHANGED quotes
             ELSE IF quotes[q].status = "converted"
             THEN last' = step("InvalidState") /\ UNCHANGED quotes
             ELSE /\ quotes' = [quotes EXCEPT ![q] = Patch(@, update_data)]
                  /\ last' = step("Success")
        /\ UNCHANGED <<quoteSeq, contracts, calls, lineVars, regVars, viewVars>>

\* The step of an update_quote_status call: status holds the status asked for.
StatusStep(q, status, result, keys) ==
    Merge(Step("update_quote_status", q, result, keys), [status |-> status])

UpdateQuoteStatus(q, status, notes, ok) ==
    LET update_data == StatusUpdateData(status, notes)
    IN  /\ IF status \notin valid_statuses
             THEN \* raise ValueError before any request
                  /\ last' = StatusStep(q, status, "InvalidStatus", {})
                  /\ UNCHANGED quotes
             ELSE IF ~ok
             THEN /\ last' = StatusStep(q, status, "Raised", DOMAIN update_data)
                  /\ UNCHANGED quotes
             ELSE IF q \notin DOMAIN quotes
             THEN /\ last' = StatusStep(q, status, "NotFound", DOMAIN update_data)
                  /\ UNCHANGED quotes
             ELSE /\ quotes' = [quotes EXCEPT ![q] = Patch(@, update_data)]
                  /\ last' = StatusStep(q, status, "Success", DOMAIN update_data)
        /\ UNCHANGED <<quoteSeq, contracts, calls, lineVars, regVars, viewVars>>

\* ------------------------------------------------------------- invocations
\* An invocation of a two-request handler.  quote holds the fields of the row
\* its GET returned that the handler goes on to use (None before the read and
\* when no row matched); args are the caller's
\* arguments; cid is the id of the contract its POST created; writes counts the
\* write requests (POST, PATCH, DELETE) it has issued; afterConv records that
\* the step taken just before its read was the successful end of a conversion
\* of the same quote.
IdleCall ==
    [ op |-> "idle", pc |-> "idle", qid |-> 0, args |-> None, quote |-> None,
      afterConv |-> FALSE, cid |-> 0, writes |-> 0, result |-> "" ]

\* quote = quotes[0], cut down to the fields delete_quote uses.
DeleteFields(row) == [status |-> row.status]

\* quote = quotes[0], cut down to the fields convert_quote_to_contract uses.
ConvertFields(row) ==
    [ status |-> row.status,
      converted_contract_id |-> row.converted_contract_id,
      proposed_start_date |-> row.proposed_start_date,
      contract_months |-> row.contract_months,
      total_amount |-> row.total_amount,
      deposit_amount |-> row.deposit_amount ]

\* Slots are taken in order, so that runs differing only in slot names coincide.
CanStart(c) ==
    /\ calls[c].op = "idle"
    /\ \A d \in CallIds : d < c => calls[d].op # "idle"

Finish(call, result) == [call EXCEPT !.pc = "done", !.result = result]

\* ------------------------------------------------------------- delete_quote
\* A delete check that refuses only the quotes already converted.
DeleteCheckNotConverted(quote) ==
    IF quote.status = "converted" THEN "InvalidState" ELSE "ok"

\* quote.get("status") != "draft" refuses the delete.
DeleteCheck(quote) == IF quote.status # "draft" THEN "InvalidState" ELSE "ok"

\* GET quotes?id=eq.q and the status check.
DeleteRead(c, q, ok) ==
    LET call == [IdleCall EXCEPT !.op = "delete", !.qid = q]
        read == [call EXCEPT !.quote = Some(DeleteFields(quotes[q]))]
        res == IF ~ok THEN Finish(call, "Raised")
               ELSE IF q \notin DOMAIN quotes THEN Finish(call, "NotFound")
               ELSE IF DeleteCheck(quotes[q]) # "ok"
                 THEN Finish(read, DeleteCheck(quotes[q]))
               ELSE [read EXCEPT !.pc = "delete"]
    IN  /\ CanStart(c)
        /\ calls' = [calls EXCEPT ![c] = res]
        /\ last' = Step("delete_quote", q, res.result, {})
        /\ UNCHANGED <<quotes, quoteSeq, contracts, lineVars, regVars, viewVars>>

\* The step of a DELETE that went through; removed is the status the row had
\* when it was removed, "" when no row matched.
RemoveStep(q) ==
    Merge(Step("delete_quote", q, "Success", {}),
          [removed |-> IF q \in DOMAIN quotes THEN quotes[q].status ELSE ""])

\* A DELETE filtered by the id and by the status draft; one that matches no
\* row is no error.
DeleteRemoveIfDraft(c, ok) ==
    LET call == calls[c]
        q == call.qid
        sent == [call EXCEPT !.writes = @ + 1]
        hit == {x \in DOMAIN quotes : x = q /\ quotes[x].status = "draft"}
    IN  /\ call.op = "delete" /\ call.pc = "delete"
        /\ IF ok
             THEN /\ quotes' = [x \in DOMAIN quotes \ hit |-> quotes[x]]
                  /\ calls' = [calls EXCEPT ![c] = Finish(sent, "Success")]
                  /\ last' = RemoveStep(q)
             ELSE /\ UNCHANGED quotes
                  /\ calls' = [calls EXCEPT ![c] = Finish(sent, "Raised")]
                  /\ last' = Step("delete_quote", q, "Raised", {})
        /\ UNCHANGED <<quoteSeq, contracts, lineVars, regVars, viewVars>>

\* DELETE quotes?id=eq.q: filtered by the id alone.
DeleteRemove(c, ok) ==
    LET call == calls[c]
        q == call.qid
        sent == [call EXCEPT !.writes = @ + 1]
    IN  /\ call.op = "delete" /\ call.pc = "delete"
        /\ IF ok
             THEN /\ quotes' = [x \in DOMAIN quotes \ {q} |-> quotes[x]]
                  /\ calls' = [calls EXCEPT ![c] = Finish(sent, "Success")]
                  /\ last' = RemoveStep(q)
             ELSE /\ UNCHANGED quotes
                  /\ calls' = [calls EXCEPT ![c] = Finish(sent, "Raised")]
                  /\ last' = Step("delete_quote", q, "Raised", {})
        /\ UNCHANGED <<quoteSeq, contracts, lineVars, regVars, viewVars>>

\* ------------------------------------------------ convert_quote_to_contract
\* The checks without the already-converted check.
ConvertCheckStatusOnly(quote) ==
    IF quote.status # "accepted" THEN "InvalidState" ELSE "ok"

\* The checks in the other order: the already-converted check first.
ConvertCheckIdFirst(quote) ==
    IF quote.converted_contract_id # 0 THEN "AlreadyConverted"
    ELSE IF quote.status # "accepted" THEN "InvalidState"
    ELSE "ok"

\* Steps 2 and 3: the status check, then the already-converted check.
ConvertCheck(quote) ==
    IF quote.status # "accepted" THEN "InvalidState"
    ELSE IF quote.converted_contract_id # 0 THEN "AlreadyConverted"
    ELSE "ok"

\* start_date or quote.get("proposed_start_date") or date.today().isoformat()
DeriveStart(quote, a) ==
    IF ~IsNone(a.start_date) THEN Get(a.start_date)
    ELSE IF ~IsNone(quote.proposed_start_date) THEN Get(quote.proposed_start_date)
    ELSE Today

\* The end date: the caller's, else start + contract_months * 30 days.
DeriveEnd(quote, a) ==
    IF IsNone(a.end_date)
      THEN AddDaysFormat(DeriveStart(quote, a), quote.contract_months * 30)
      ELSE Get(a.end_date)

\* The monthly rent: the caller's, else the quote's total over its months.
DeriveRent(quote, a) ==
    IF IsNone(a.monthly_rent)
      THEN IF quote.contract_months > 0
             THEN PyRound(quote.total_amount, quote.contract_months)
             ELSE quote.total_amount
      ELSE Get(a.monthly_rent)

\* A deposit taken by truth value: a deposit of 0 given by the caller is passed
\* over for the quote's.
DeriveDepositTruthy(quote, a) ==
    IF IsNone(a.deposit_amount) \/ Get(a.deposit_amount) = 0
      THEN quote.deposit_amount
      ELSE Get(a.deposit_amount)

\* The deposit: the caller's (None only when not given), else the quote's.
DeriveDeposit(quote, a) ==
    IF IsNone(a.deposit_amount) THEN quote.deposit_amount ELSE Get(a.deposit_amount)

\* contract_data with the status of a direct creation.
ContractDataDraft(quote, a) ==
    [ start_date |-> DeriveStart(quote, a),
      end_date |-> DeriveEnd(quote, a),
      monthly_rent |-> DeriveRent(quote, a),
      deposit |-> DeriveDeposit(quote, a),
      status |-> "draft" ]

\* contract_data, the body of the POST.
ContractData(quote, a) ==
    [ start_date |-> DeriveStart(quote, a),
      end_date |-> DeriveEnd(quote, a),
      monthly_rent |-> DeriveRent(quote, a),
      deposit |-> DeriveDeposit(quote, a),
      status |-> "pending_sign" ]

\* Step 1 to 3: GET v_quotes?id=eq.q and the two checks.
ConvertRead(c, q, a, ok) ==
    LET call == [IdleCall EXCEPT !.op = "convert", !.qid = q, !.args = Some(a),
                    !.afterConv = (last = Step("convert", q, "Success", {}))]
        read == [call EXCEPT !.quote = Some(ConvertFields(quotes[q]))]
        res == IF ~ok THEN Finish(call, "Raised")
               ELSE IF q \notin DOMAIN quotes THEN Finish(call, "NotFound")
               ELSE IF ConvertCheck(quotes[q]) # "ok"
                 THEN Finish(read, ConvertCheck(quotes[q]))
               ELSE [read EXCEPT !.pc = "create"]
    IN  /\ CanStart(c)
        /\ calls' = [calls EXCEPT ![c] = res]
        /\ last' = Step("convert", q, IF res.pc = "done" THEN res.result ELSE "read", {})
        /\ UNCHANGED <<quotes, quoteSeq, contracts, lineVars, regVars, viewVars>>

\* Step 4 to 6: derive the contract from the row read and POST it.  The row
\* carries quote_id and by, which the real row does not: the quote converted
\* and the invocation that posted it.
ConvertCreate(c, ok) ==
    LET call == calls[c]
        id == Len(contracts) + 1
        data == ContractData(Get(call.quote), Get(call.args))
        row == Merge(data, [id |-> id, quote_id |-> call.qid, by |-> c])
        sent == [call EXCEPT !.writes = @ + 1]
    IN  /\ call.op = "convert" /\ call.pc = "create"
        /\ IF ok
             THEN /\ contracts' = Append(contracts, row)
                  /\ calls' = [calls EXCEPT ![c] = [sent EXCEPT !.pc = "patch", !.cid = id]]
                  /\ last' = Step("convert", call.qid, "created", DOMAIN data)
             ELSE /\ UNCHANGED contracts
                  /\ calls' = [calls EXCEPT ![c] = Finish(sent, "Raised")]
                  /\ last' = Step("convert", call.qid, "Raised", DOMAIN data)
        /\ UNCHANGED <<quotes, quoteSeq, lineVars, regVars, viewVars>>

\* A PATCH that points the quote at the id after the contract's.
ConvertedPatchNextId(cid) ==
    [status |-> "converted", converted_contract_id |-> cid + 1, converted_at |-> Now]

\* A PATCH that marks the quote converted without the contract id.
ConvertedPatchNoId(cid) == [status |-> "converted", converted_at |-> Now]

\* A last step that undoes the contract when the quote PATCH fails.
ConvertPatchCompensating(c, ok) ==
    LET call == calls[c]
        q == call.qid
        sent == [call EXCEPT !.writes = @ + 1]
    IN  /\ call.op = "convert" /\ call.pc = "patch"
        /\ IF ok
             THEN /\ quotes' = IF q \in DOMAIN quotes
                                 THEN [quotes EXCEPT ![q] =
                                          Patch(@, [status |-> "converted",
                                                    converted_contract_id |-> call.cid,
                                                    converted_at |-> Now])]
                                 ELSE quotes
                  /\ UNCHANGED contracts
                  /\ calls' = [calls EXCEPT ![c] = Finish(sent, "Success")]
                  /\ last' = Step("convert", q, "Success", {})
             ELSE /\ UNCHANGED quotes
                  /\ contracts' = SubSeq(contracts, 1, call.cid - 1)
                  /\ calls' = [calls EXCEPT ![c] = Finish(sent, "Raised")]
                  /\ last' = Step("convert", q, "Raised", {})
        /\ UNCHANGED <<quoteSeq, lineVars, regVars, viewVars>>

\* The body of the PATCH that marks the quote converted.
ConvertedPatch(cid) ==
    [status |-> "converted", converted_contract_id |-> cid, converted_at |-> Now]

\* Step 7: PATCH quotes?id=eq.q; a PATCH that matches no row is no error.
ConvertPatch(c, ok) ==
    LET call == calls[c]
        q == call.qid
        sent == [call EXCEPT !.writes = @ + 1]
    IN  /\ call.op = "convert" /\ call.pc = "patch"
        /\ IF ok
             THEN /\ quotes' = IF q \in DOMAIN quotes
                                 THEN [quotes EXCEPT ![q] = Patch(@, ConvertedPatch(call.cid))]
                                 ELSE quotes
                  /\ calls' = [calls EXCEPT ![c] = Finish(sent, "Success")]
                  /\ last' = Step("convert", q, "Success", {})
             ELSE /\ UNCHANGED quotes
                  /\ calls' = [calls EXCEPT ![c] = Finish(sent, "Raised")]
                  /\ last' = Step("convert", q, "Raised", {})
        /\ UNCHANGED <<quoteSeq, contracts, lineVars, regVars, viewVars>>

\* The parameters of convert_quote_to_contract that this model carries, and a
\* call with a keyword that is none of the parameters of the signature: Python
\* raises TypeError at the call, before the first request.
ConvertParams == {"start_date", "end_date", "monthly_rent", "deposit_amount"}

\* A step of a call whose keywords are on record; it sends no request body.
KeywordStep(op, qid, result, kwargs) ==
    Merge(Step(op, qid, result, {}), [kwargs |-> kwargs])

ConvertKeywords(q, kwargs) ==
    /\ DOMAIN kwargs \ ConvertParams # {}
    /\ last' = KeywordStep("convert", q, "TypeError", DOMAIN kwargs)
    /\ UNCHANGED <<quotes, quoteSeq, contracts, calls, lineVars, regVars, viewVars>>

\* ============================================================= crm_tools.py
\* Contracts in the table, for the runs that create contracts directly.
MaxContracts == 2

\* The parameters of create_contract that this model carries.
ContractParams == {"start_date", "end_date", "monthly_rent", "deposit"}

\* data, the body of the POST of create_contract.
DirectContractData(kwargs) ==
    [ start_date |-> kwargs.start_date,
      end_date |-> kwargs.end_date,
      monthly_rent |-> kwargs.monthly_rent,
      deposit |-> kwargs.deposit,
      status |-> "draft" ]

\* create_contract(**kwargs): a keyword outside the signature is a TypeError at
\* the call; else POST contracts.  The row carries quote_id = 0 and by = 0: no
\* quote and no conversion stand behind it.  This is what the call does to the
\* contracts table, whoever makes it.
CreateContractEffect(kwargs, ok) ==
    /\ Len(contracts) < MaxContracts
    /\ IF DOMAIN kwargs \ ContractParams # {}
         THEN /\ last' = KeywordStep("create_contract", 0, "TypeError", DOMAIN kwargs)
              /\ UNCHANGED contracts
         ELSE IF ~ok
         THEN /\ last' = KeywordStep("create_contract", 0, "Raised", DOMAIN kwargs)
              /\ UNCHANGED contracts
         ELSE LET id == Len(contracts) + 1
                  row == Merge(DirectContractData(kwargs),
                               [id |-> id, quote_id |-> 0, by |-> 0])
              IN  /\ contracts' = Append(contracts, row)
                  /\ last' = KeywordStep("create_contract", id, "Success", DOMAIN kwargs)

\* create_contract called on its own.
CreateContract(kwargs, ok) ==
    /\ CreateContractEffect(kwargs, ok)
    /\ UNCHANGED <<quotes, quoteSeq, calls, lineVars, regVars, viewVars>>

\* ============================================================ line_tools.py
\* Payments fetched by one bulk run.
MaxPayments == 3

\* A row of the view v_payments_due.  line_user_id is None when the customer
\* has no LINE account bound; total_due is None when the column is null.
PaymentRow(id, line, status) ==
    [ id |-> id,
      customer_name |-> <<"customer", id>>,
      line_user_id |-> line,
      payment_status |-> status,
      payment_period |-> <<"period", id>>,
      total_due |-> Some(1000 * id),
      due_date |-> Day10,
      overdue_days |-> id ]

\* ------------------------------------------------------------ send_line_push
\* What the LINE API does to a request: answers 200, answers another status,
\* or the request itself fails.
LineOutcomes == {"200", "rejected", "failed"}

\* send_line_push: the value it returns.  It raises nothing: a missing token,
\* a non-200 answer and an exception all come back as a failure value.
LinePushResult(token, outcome) ==
    IF ~token THEN [success |-> FALSE, error |-> <<"LINE Bot not configured">>]
    ELSE IF outcome = "200" THEN [success |-> TRUE]
    ELSE IF outcome = "rejected" THEN [success |-> FALSE, error |-> <<"LINE API error">>]
    ELSE [success |-> FALSE, error |-> <<"request failed">>]

\* The record of one send_line_push call: the address, the text, and whether
\* a request went out to the LINE API (none does without a token).
PushRecord(to, text, token) == [to |-> to, text |-> text, requested |-> token]

\* What a handler has come to: whether it raised, the value it returned
\* otherwise, and the send_line_push calls it made.  A call of send_line_push
\* awaits the LINE API only when the token is set: the handler is suspended
\* there until the answer comes.
AwaitsPush(r) == r.pushed # <<>> /\ r.pushed[1].requested

\* --------------------------------------------------------- send_line_message
\* A row of the table customers, as selected: id, name, line_user_id.
CustomerRow(id, line) ==
    [id |-> id, name |-> <<"customer", id>>, line_user_id |-> line]

\* What the GET customers?id=eq.<id> comes to: the request fails, no row
\* matches, or the row comes back, bound to a LINE account or not.
CustomerFetches(customer_id) ==
    { [kind |-> "raise", row |-> CustomerRow(customer_id, None)],
      [kind |-> "empty", row |-> CustomerRow(customer_id, None)],
      [kind |-> "row", row |-> CustomerRow(customer_id, None)],
      [kind |-> "row", row |-> CustomerRow(customer_id, Some("U1"))] }

\* send_line_message(customer_id, message).
SendLineMessage(customer_id, message, fetch, token, outcome) ==
    LET row == fetch.row
        quiet(value) == [raised |-> FALSE, value |-> value, pushed |-> <<>>]
    IN  IF fetch.kind = "raise"
          THEN [raised |-> TRUE, value |-> [success |-> FALSE], pushed |-> <<>>]
        ELSE IF fetch.kind = "empty"
          THEN quiet([success |-> FALSE, error |-> <<"customer not found">>])
        ELSE IF IsNone(row.line_user_id)
          THEN quiet([success |-> FALSE, error |-> <<"no LINE bound", row.name>>])
        ELSE LET result == LinePushResult(token, outcome)
                 push == PushRecord(Get(row.line_user_id),
                                    [template |-> "text", text |-> message], token)
             IN  [ raised |-> FALSE,
                   value |-> IF result.success
                               THEN [success |-> TRUE, message |-> <<"sent", row.name>>]
                               ELSE result,
                   pushed |-> <<push>> ]

\* ----------------------------------------------------- send_payment_reminder
\* f"${amount:,.0f}" of a whole amount.
FormatAmount(amount) == <<"$", amount>>

\* A reminder that uses the fallback text for every reminder type.
PaymentMessageFallback(row, reminder_type) ==
    [ template |-> "other", customer_name |-> row.customer_name,
      amount |-> FormatAmount(Get(row.total_due)) ]

\* The text of the reminder, as the template chosen and the values laid into it.
PaymentMessage(row, reminder_type) ==
    LET customer_name == row.customer_name
        period == row.payment_period
        amount == FormatAmount(Get(row.total_due))
    IN  IF reminder_type = "upcoming"
          THEN [ template |-> "upcoming", customer_name |-> customer_name,
                 period |-> period, amount |-> amount, due_date |-> row.due_date ]
        ELSE IF reminder_type = "due"
          THEN [ template |-> "due", customer_name |-> customer_name,
                 period |-> period, amount |-> amount ]
        ELSE IF reminder_type = "overdue"
          THEN [ template |-> "overdue", customer_name |-> customer_name,
                 period |-> period, amount |-> amount,
                 overdue_days |-> row.overdue_days ]
        ELSE [ template |-> "other", customer_name |-> customer_name,
               amount |-> amount ]

\* What the GET v_payments_due?id=eq.<id> of send_payment_reminder comes to, for
\* a payment whose row was p when the bulk run fetched it: the request fails,
\* no row matches any more, or the row comes back: as it was, with the LINE
\* account unbound since, or with total_due null.
Refetches(p) ==
    { [kind |-> "raise", row |-> p],
      [kind |-> "empty", row |-> p],
      [kind |-> "row", row |-> p],
      [kind |-> "row", row |-> [p EXCEPT !.line_user_id = None]],
      [kind |-> "row", row |-> [p EXCEPT !.total_due = None]] }

\* send_payment_reminder(payment_id, reminder_type): whether it raises, the
\* value it returns otherwise, and the send_line_push calls it makes.
SendPaymentReminder(payment_id, reminder_type, refetch, token, outcome) ==
    LET row == refetch.row
        quiet(value) == [raised |-> FALSE, value |-> value, pushed |-> <<>>]
        raise == [raised |-> TRUE, value |-> [success |-> FALSE], pushed |-> <<>>]
    IN  IF refetch.kind = "raise" THEN raise
        ELSE IF refetch.kind = "empty"
          THEN quiet([success |-> FALSE, error |-> <<"payment not found">>])
        ELSE IF IsNone(row.line_user_id)
          THEN quiet([success |-> FALSE, error |-> <<"no LINE bound", row.customer_name>>])
        ELSE IF IsNone(row.total_due)
          THEN raise  \* the amount cannot be formatted: TypeError
        ELSE LET message == PaymentMessage(row, reminder_type)
                 result == LinePushResult(token, outcome)
                 push == PushRecord(Get(row.line_user_id), message, token)
             IN  [ raised |-> FALSE,
                   value |-> IF result.success
                               THEN [ success |-> TRUE, payment_id |-> payment_id,
                                      reminder_type |-> reminder_type ]
                               ELSE result,
                   pushed |-> <<push>> ]

\* ----------------------------------------------- send_bulk_payment_reminders
IdleBulk ==
    [ pc |-> "idle", dry_run |-> FALSE, list |-> <<>>, i |-> 0,
      sent_count |-> 0, failed_count |-> 0, errors |-> <<>>,
      pending |-> None, result |-> "", report |-> None ]

\* p.get("line_user_id")
HasLine(p) == ~IsNone(p.line_user_id)

\* [p for p in payments if p.get("line_user_id")]
WithLine(ps) == SelectSeq(ps, HasLine)

RECURSIVE SumDue(_)
\* sum(p.get("total_due", 0) for p in payments_with_line)
SumDue(ps) == IF ps = <<>> THEN 0 ELSE Get(Head(ps).total_due) + SumDue(Tail(ps))

\* The value a dry run returns.
DryRunReport(ps, with_line) ==
    [ dry_run |-> TRUE, total_payments |-> Len(ps), with_line_id |-> Len(with_line),
      would_send |-> Len(with_line), total_amount |-> SumDue(with_line) ]

\* The value a live run returns: errors if errors else None.
LiveReport(b) ==
    [ dry_run |-> FALSE, sent_count |-> b.sent_count, failed_count |-> b.failed_count,
      errors |-> IF b.errors = <<>> THEN None ELSE Some(b.errors) ]

\* An accumulation that counts a failure without listing it.
BulkAccumulateUnlisted(b, payment, value) ==
    IF value.success
      THEN [b EXCEPT !.sent_count = @ + 1]
      ELSE [b EXCEPT !.failed_count = @ + 1]

\* The body of the loop after the reminder returned: count it, list a failure.
BulkAccumulate(b, payment, value) ==
    IF value.success
      THEN [b EXCEPT !.sent_count = @ + 1]
      ELSE [b EXCEPT !.failed_count = @ + 1,
                     !.errors = Append(@, [ payment_id |-> payment.id,
                                            customer |-> payment.customer_name,
                                            error |-> value.error ])]

\* A flag that is never honoured: the run sends all the same.
IsDryRunNever(dry_run) == FALSE

\* if dry_run:
IsDryRun(dry_run) == dry_run

\* The GET of the candidates, the filter, and the dry-run return.
BulkFetch(dry_run, ok) ==
    LET with_line == WithLine(payments)
        started == [IdleBulk EXCEPT !.dry_run = dry_run]
    IN  /\ bulk.pc = "idle"
        /\ bulk' =
             IF ~ok THEN [started EXCEPT !.pc = "done", !.result = "Raised"]
             ELSE IF IsDryRun(dry_run)
               THEN [started EXCEPT !.pc = "done", !.result = "Report",
                                    !.list = with_line,
                                    !.report = Some(DryRunReport(payments, with_line))]
             ELSE IF with_line = <<>>
               THEN [started EXCEPT !.pc = "done", !.result = "Report",
                                    !.report = Some(LiveReport(started))]
             ELSE [started EXCEPT !.pc = "loop", !.list = with_line, !.i = 1]
        /\ UNCHANGED <<payments, lineToken, pushes, outcomes, reminder, quoteVars, regVars, viewVars>>

\* reminder_type of a turn of the loop.
BulkReminderType(payment) ==
    IF payment.payment_status = "overdue" THEN "overdue" ELSE "upcoming"

\* The end of a turn of the loop, send_payment_reminder having come to r: the
\* count, and the return of the report after the last payment.  An exception
\* out of send_payment_reminder is caught by the handler's own except clause,
\* which raises: the run ends there.
BulkTurn(r) ==
    LET payment == bulk.list[bulk.i]
        idle == [bulk EXCEPT !.pc = "loop", !.pending = None]
        counted == BulkAccumulate(idle, payment, r.value)
    IN  /\ pushes' = pushes \o r.pushed
        /\ outcomes' = Append(outcomes, [ payment_id |-> payment.id, raised |-> r.raised,
                                          success |-> ~r.raised /\ r.value.success ])
        /\ bulk' =
             IF r.raised THEN [idle EXCEPT !.pc = "done", !.result = "Raised"]
             ELSE IF bulk.i = Len(bulk.list)
               THEN [counted EXCEPT !.pc = "done", !.result = "Report",
                                    !.report = Some(LiveReport(counted))]
             ELSE [counted EXCEPT !.i = @ + 1]

\* A turn of the loop up to the answer of the GET of send_payment_reminder:
\* the turn ends there unless a request goes out to the LINE API; the run is
\* then suspended on it, holding the row it read.
BulkRefetch(refetch) ==
    LET payment == bulk.list[bulk.i]
        r == SendPaymentReminder(payment.id, BulkReminderType(payment), refetch,
                                 lineToken, "200")
    IN  /\ bulk.pc = "loop"
        /\ refetch \in Refetches(payment)
        /\ IF AwaitsPush(r)
             THEN /\ bulk' = [bulk EXCEPT !.pc = "push", !.pending = Some(refetch)]
                  /\ UNCHANGED <<pushes, outcomes>>
             ELSE BulkTurn(r)
        /\ UNCHANGED <<payments, lineToken, reminder, quoteVars, regVars, viewVars>>

\* The answer of the LINE API to the push of the turn, and the end of the turn.
BulkPush(outcome) ==
    LET payment == bulk.list[bulk.i]
    IN  /\ bulk.pc = "push"
        /\ BulkTurn(SendPaymentReminder(payment.id, BulkReminderType(payment),
                                        Get(bulk.pending), lineToken, outcome))
        /\ UNCHANGED <<payments, lineToken, reminder, quoteVars, regVars, viewVars>>

LineOpts == {None, Some("U1")}
StatusOpts == {"overdue", "upcoming"}

\* The lists of rows the bulk GET may return: ids 1..n in this order.
PaymentLists ==
    UNION { { [i \in 1..n |-> PaymentRow(i, f[i][1], f[i][2])] :
                f \in [1..n -> LineOpts \X StatusOpts] } : n \in 0..MaxPayments }

InitLineIdle ==
    /\ payments = <<>>
    /\ lineToken = TRUE
    /\ bulk = IdleBulk
    /\ pushes = <<>>
    /\ outcomes = <<>>
    /\ reminder = None


\* ----------------------------------------------------- send_renewal_reminder
\* The largest days_remaining of a row of v_renewal_reminders looked at.
MaxDays == 46

\* days_remaining of the rows: from a contract two days past its end.
DaysRange == (0 - 2)..MaxDays

\* The tier with both thresholds exclusive.
RenewalUrgencyStrict(days_remaining) ==
    IF days_remaining < 7 THEN "urgent"
    ELSE IF days_remaining < 30 THEN "important"
    ELSE "informational"

\* The urgency label of the message: urgent, important and informational stand
\* for the three labels of the source.
RenewalUrgency(days_remaining) ==
    IF days_remaining <= 7 THEN "urgent"
    ELSE IF days_remaining <= 30 THEN "important"
    ELSE "informational"

\* A row of the view v_renewal_reminders; days_remaining is None when null.
RenewalRow(contract_id, line, days_remaining) ==
    [ contract_id |-> contract_id,
      customer_name |-> <<"customer", contract_id>>,
      line_user_id |-> line,
      end_date |-> Day400,
      days_remaining |-> days_remaining,
      branch_name |-> <<"branch", contract_id>> ]

\* The text of the renewal notice, as the label and the values laid into it.
RenewalMessage(row) ==
    [ urgency |-> RenewalUrgency(Get(row.days_remaining)),
      customer_name |-> row.customer_name,
      branch_name |-> row.branch_name,
      end_date |-> row.end_date,
      days_remaining |-> Get(row.days_remaining) ]

\* What the GET v_renewal_reminders?contract_id=eq.<id> comes to: the request
\* fails, no row matches, or the row comes back, bound to a LINE account or not,
\* its days_remaining a number or null.
RenewalFetches(contract_id) ==
    { [kind |-> "raise", row |-> RenewalRow(contract_id, None, None)],
      [kind |-> "empty", row |-> RenewalRow(contract_id, None, None)] }
    \cup { [kind |-> "row", row |-> RenewalRow(contract_id, line, days)] :
             line \in {None, Some("U1")},
             days \in {None} \cup {Some(d) : d \in DaysRange} }

\* A renewal reminder without the check of the LINE binding: the push goes out
\* to whatever line_user_id holds.
SendRenewalReminderUnchecked(contract_id, fetch, token, outcome) ==
    LET row == fetch.row
        quiet(value) == [raised |-> FALSE, value |-> value, pushed |-> <<>>]
        raise == [raised |-> TRUE, value |-> [success |-> FALSE], pushed |-> <<>>]
    IN  IF fetch.kind = "raise" THEN raise
        ELSE IF fetch.kind = "empty"
          THEN quiet([success |-> FALSE, error |-> <<"contract not found">>])
        ELSE IF IsNone(row.days_remaining) THEN raise
        ELSE [ raised |-> FALSE,
               value |-> LinePushResult(token, outcome),
               pushed |-> <<PushRecord(row.line_user_id, RenewalMessage(row), token)>> ]

\* send_renewal_reminder(contract_id): whether it raises, the value it returns
\* otherwise, and the send_line_push calls it makes.
SendRenewalReminder(contract_id, fetch, token, outcome) ==
    LET row == fetch.row
        quiet(value) == [raised |-> FALSE, value |-> value, pushed |-> <<>>]
        raise == [raised |-> TRUE, value |-> [success |-> FALSE], pushed |-> <<>>]
    IN  IF fetch.kind = "raise" THEN raise
        ELSE IF fetch.kind = "empty"
          THEN quiet([success |-> FALSE, error |-> <<"contract not found">>])
        ELSE IF IsNone(row.line_user_id)
          THEN quiet([success |-> FALSE, error |-> <<"no LINE bound", row.customer_name>>])
        ELSE IF IsNone(row.days_remaining)
          THEN raise  \* None <= 7: TypeError
        ELSE LET message == RenewalMessage(row)
                 result == LinePushResult(token, outcome)
                 push == PushRecord(Get(row.line_user_id), message, token)
             IN  [ raised |-> FALSE,
                   value |-> IF result.success
                               THEN [ success |-> TRUE, contract_id |-> contract_id,
                                      days_remaining |-> Get(row.days_remaining) ]
                               ELSE result,
                   pushed |-> <<push>> ]

\* ----------------------------------------------------------- single calls
\* The handlers that send one message.
LineHandlers == {"send_line_message", "send_payment_reminder", "send_renewal_reminder"}

\* handler(**args), the GET answered by fetch and the LINE API by outcome.
LineHandlerRun(handler, args, fetch, token, outcome) ==
    IF handler = "send_line_message"
      THEN SendLineMessage(args.customer_id, args.message, fetch, token, outcome)
    ELSE IF handler = "send_payment_reminder"
      THEN SendPaymentReminder(args.payment_id, args.reminder_type, fetch, token, outcome)
    ELSE SendRenewalReminder(args.contract_id, fetch, token, outcome)

\* One call of a handler on its own: the tool, its arguments, the row its GET
\* returned, where the call stands (suspended on the push, or done) and, once
\* done, what it came to.
ReminderCall(tool, args, fetch, pc, r) ==
    Some([ tool |-> tool, args |-> args, fetch |-> fetch, pc |-> pc,
           raised |-> r.raised, value |-> r.value, pushed |-> r.pushed ])

\* The call while it is suspended: nothing raised, returned or pushed yet.
Suspended == [raised |-> FALSE, value |-> [success |-> FALSE], pushed |-> <<>>]

\* The call up to the answer of its GET: it ends there unless a request goes
\* out to the LINE API.
LineHandlerStart(tool, args, fetch) ==
    LET r == LineHandlerRun(tool, args, fetch, lineToken, "200")
    IN  /\ IF AwaitsPush(r)
             THEN /\ reminder' = ReminderCall(tool, args, fetch, "push", Suspended)
                  /\ UNCHANGED pushes
             ELSE /\ reminder' = ReminderCall(tool, args, fetch, "done", r)
                  /\ pushes' = pushes \o r.pushed
        /\ UNCHANGED <<payments, lineToken, bulk, outcomes, quoteVars, regVars, viewVars>>

\* The answer of the LINE API to the push of the suspended call.
LineHandlerPush(outcome) ==
    /\ ~IsNone(reminder)
    /\ Get(reminder).pc = "push"
    /\ LET c == Get(reminder)
           r == LineHandlerRun(c.tool, c.args, c.fetch, lineToken, outcome)
       IN  /\ reminder' = ReminderCall(c.tool, c.args, c.fetch, "done", r)
           /\ pushes' = pushes \o r.pushed
    /\ UNCHANGED <<payments, lineToken, bulk, outcomes, quoteVars, regVars, viewVars>>

DoSendLineMessage(customer_id, message, fetch) ==
    LineHandlerStart("send_line_message",
                     [customer_id |-> customer_id, message |-> message], fetch)

DoSendRenewalReminder(contract_id, fetch) ==
    LineHandlerStart("send_renewal_reminder", [contract_id |-> contract_id], fetch)

DoSendPaymentReminder(payment_id, reminder_type, fetch) ==
    LineHandlerStart("send_payment_reminder",
                     [payment_id |-> payment_id, reminder_type |-> reminder_type], fetch)

\* ================================================================== main.py
\* The names of the catalog MCP_TOOLS.
MCP_TOOLS ==
    { "crm_search_customers", "crm_get_customer_detail", "crm_list_payments_due",
      "crm_list_renewals_due", "crm_create_customer", "crm_update_customer",
      "crm_record_payment", "crm_create_contract", "line_send_message",
      "line_send_payment_reminder", "line_send_renewal_reminder",
      "report_revenue_summary", "report_overdue_list", "report_commission_due" }

\* The two invocation surfaces: POST /tools/call and POST /mcp/tools/call.
Surfaces == {"tools_call", "mcp_tools_call"}

\* str(x)
Str(x) == <<"str", x>>

\* What await handler(**params) comes to: a value returned or an exception.
Returned(value) == [kind |-> "return", value |-> value]
Raised(message) == [kind |-> "raise", message |-> message]

\* The handler of every tool of the catalog.
HandlerOf ==
    [ crm_search_customers |-> "search_customers",
      crm_get_customer_detail |-> "get_customer_detail",
      crm_list_payments_due |-> "list_payments_due",
      crm_list_renewals_due |-> "list_renewals_due",
      crm_create_customer |-> "create_customer",
      crm_update_customer |-> "update_customer",
      crm_record_payment |-> "record_payment",
      crm_create_contract |-> "create_contract",
      line_send_message |-> "send_line_message",
      line_send_payment_reminder |-> "send_payment_reminder",
      line_send_renewal_reminder |-> "send_renewal_reminder",
      report_revenue_summary |-> "get_revenue_summary",
      report_overdue_list |-> "get_overdue_list",
      report_commission_due |-> "get_commission_due" ]

\* The handlers of crm_tools.py that touch no table this model keeps: each is a
\* sequence of gateway requests.
GatewayHandlers ==
    { "search_customers", "get_customer_detail", "list_payments_due",
      "list_renewals_due", "create_customer", "update_customer", "record_payment" }

\* The handlers of report_tools: one gateway request each.
ReportHandlers == {"get_revenue_summary", "get_overdue_list", "get_commission_due"}

\* The handlers that check their arguments and raise ValueError before any
\* request.
CheckingHandlers == {"get_customer_detail", "update_customer", "record_payment"}

\* What the gateway answers to a request: rows, no row, or the request fails.
GatewayAnswers == {"rows", "empty", "failed"}

\* handler(**params) with a keyword the handler does not take: TypeError.
ArgumentMismatch == Raised("unexpected keyword argument")

\* The except clause of a handler: raise Exception(f"... {e}").
HandlerFailure == Raised("upstream failure")

\* handler(**params) that raises ValueError for its arguments.
InvalidArguments == Raised("invalid arguments")

\* A handler of crm_tools.py when its k-th request is answered: it goes on to
\* the next request (more) or ends with an outcome.
GatewayStep(handler, k, answer) ==
    LET more == [more |-> TRUE, outcome |-> HandlerFailure]
        ends(outcome) == [more |-> FALSE, outcome |-> outcome]
        count == IF answer = "rows" THEN 1 ELSE 0
    IN  IF answer = "failed" THEN ends(HandlerFailure)
        ELSE IF handler = "get_customer_detail"
          THEN IF k = 1
                 THEN IF answer = "empty"
                        THEN ends(Returned([found |-> FALSE, message |-> "not found"]))
                        ELSE more
               ELSE IF k = 2 THEN more
               ELSE ends(Returned([found |-> TRUE]))
        ELSE IF handler = "create_customer"
          THEN IF answer = "empty"
                 THEN ends(HandlerFailure)  \* result[0] of an empty list
                 ELSE ends(Returned([success |-> TRUE]))
        ELSE IF handler \in {"update_customer", "record_payment"}
          THEN IF answer = "empty"
                 THEN ends(Returned([success |-> FALSE, message |-> "not found"]))
                 ELSE ends(Returned([success |-> TRUE]))
        ELSE ends(Returned([count |-> count]))

\* A handler of report_tools when its request is answered.
ReportStep(answer) ==
    IF answer = "failed" THEN [more |-> FALSE, outcome |-> HandlerFailure]
    ELSE [more |-> FALSE, outcome |-> Returned([count |-> IF answer = "rows" THEN 1 ELSE 0])]

\* A handler that sends a message, taken as the handler of a tool: its except
\* clause raises Exception(f"... {e}") for what went wrong inside.
ReminderOutcome(r) ==
    IF r.raised THEN Raised("reminder failed") ELSE Returned(r.value)

\* create_contract taken as the handler of a tool.
CreateContractOutcome(kwargs, ok) ==
    IF DOMAIN kwargs \ ContractParams # {} THEN ArgumentMismatch
    ELSE IF ~ok THEN HandlerFailure
    ELSE Returned([ success |-> TRUE,
                    contract |-> Merge(DirectContractData(kwargs),
                                       [ id |-> Len(contracts) + 1,
                                         quote_id |-> 0, by |-> 0 ]) ])

\* call_tool without its try: the handler's exception goes to the caller.
CallToolNoCatch(tool_name, outcome) ==
    IF tool_name \notin MCP_TOOLS
      THEN [ raised |-> TRUE, invoked |-> FALSE, status_code |-> 404,
             detail |-> <<"Tool not found", tool_name>> ]
    ELSE IF outcome.kind = "return"
      THEN [ raised |-> FALSE, invoked |-> TRUE,
             body |-> [success |-> TRUE, tool |-> tool_name, result |-> outcome.value] ]
    ELSE [ raised |-> TRUE, invoked |-> TRUE, status_code |-> 500,
           detail |-> outcome.message ]

\* call_tool with the flag of the handler's value passed on as its own.
CallToolPassesFlag(tool_name, outcome) ==
    IF tool_name \notin MCP_TOOLS
      THEN [ raised |-> TRUE, invoked |-> FALSE, status_code |-> 404,
             detail |-> <<"Tool not found", tool_name>> ]
    ELSE IF outcome.kind = "return"
      THEN [ raised |-> FALSE, invoked |-> TRUE,
             body |-> [ success |-> IF "success" \in DOMAIN outcome.value
                                      THEN outcome.value.success ELSE TRUE,
                        tool |-> tool_name, result |-> outcome.value ] ]
    ELSE [ raised |-> FALSE, invoked |-> TRUE,
           body |-> [success |-> FALSE, tool |-> tool_name,
                     error |-> Str(outcome.message)] ]

\* POST /tools/call: what it raises or returns, and whether the handler ran.
CallTool(tool_name, outcome) ==
    IF tool_name \notin MCP_TOOLS
      THEN [ raised |-> TRUE, invoked |-> FALSE, status_code |-> 404,
             detail |-> <<"Tool not found", tool_name>> ]
    ELSE IF outcome.kind = "return"
      THEN [ raised |-> FALSE, invoked |-> TRUE,
             body |-> [success |-> TRUE, tool |-> tool_name, result |-> outcome.value] ]
    ELSE [ raised |-> FALSE, invoked |-> TRUE,
           body |-> [success |-> FALSE, tool |-> tool_name,
                     error |-> Str(outcome.message)] ]

\* A text content block.
TextContent(text) == <<[type |-> "text", text |-> text]>>

\* POST /mcp/tools/call: it raises for nothing, an unknown tool included.
McpCallTool(tool_name, outcome) ==
    IF tool_name \notin MCP_TOOLS
      THEN [ raised |-> FALSE, invoked |-> FALSE,
             body |-> [ content |-> TextContent(<<"Error: Tool not found", tool_name>>),
                        isError |-> TRUE ] ]
    ELSE IF outcome.kind = "return"
      THEN [ raised |-> FALSE, invoked |-> TRUE,
             body |-> [content |-> TextContent(Str(outcome.value)), isError |-> FALSE] ]
    ELSE [ raised |-> FALSE, invoked |-> TRUE,
           body |-> [ content |-> TextContent(<<"Error: ", Str(outcome.message)>>),
                      isError |-> TRUE ] ]

\* A request on a surface: the tool, where its handler stands (on a gateway
\* request, on the push, or done), the number of the request awaited, the
\* arguments and the row read of a handler that sends a message, and, once
\* done, the handler's outcome and the response.
Req(tool_name, pc, k, call, outcome, response) ==
    Some([ tool |-> tool_name, pc |-> pc, k |-> k, call |-> call,
           outcome |-> outcome, response |-> response ])

\* What the surface answers to the caller.
Respond(surface, tool_name, outcome) ==
    IF surface = "tools_call" THEN CallTool(tool_name, outcome)
    ELSE McpCallTool(tool_name, outcome)

\* The request answered.
Answered(surface, tool_name, outcome) ==
    Req(tool_name, "done", 0, None, Some(outcome),
        Some(Respond(surface, tool_name, outcome)))

\* No request is in progress on the surface.
Free(surface) ==
    IF IsNone(responses[surface]) THEN TRUE ELSE Get(responses[surface]).pc = "done"

\* A request for a tool that is not in the catalog: no handler exists, and the
\* outcome put on record is never read.
ServeUnknown(surface, tool_name) ==
    /\ Free(surface)
    /\ tool_name \notin MCP_TOOLS
    /\ responses' = [responses EXCEPT ![surface] =
                        Answered(surface, tool_name, Raised("no handler"))]
    /\ UNCHANGED <<quoteVars, lineVars, viewVars>>

\* A request whose handler raises before its first request: a keyword it does
\* not take, or arguments it refuses.
ServeRaise(surface, tool_name, outcome) ==
    /\ Free(surface)
    /\ tool_name \in MCP_TOOLS
    /\ \/ outcome = ArgumentMismatch
       \/ outcome = InvalidArguments /\ HandlerOf[tool_name] \in CheckingHandlers
    /\ responses' = [responses EXCEPT ![surface] = Answered(surface, tool_name, outcome)]
    /\ UNCHANGED <<quoteVars, lineVars, viewVars>>

\* The request with the k-th gateway request of its handler answered.
Proceed(surface, tool_name, k, answer) ==
    LET handler == HandlerOf[tool_name]
        step == IF handler \in ReportHandlers THEN ReportStep(answer)
                ELSE GatewayStep(handler, k, answer)
    IN  IF step.more THEN Req(tool_name, "requests", k + 1, None, None, None)
        ELSE Answered(surface, tool_name, step.outcome)

\* A request for a handler that is a sequence of gateway requests, up to the
\* answer of the first.
ServeGateway(surface, tool_name, answer) ==
    /\ Free(surface)
    /\ tool_name \in MCP_TOOLS
    /\ HandlerOf[tool_name] \in GatewayHandlers \cup ReportHandlers
    /\ responses' = [responses EXCEPT ![surface] = Proceed(surface, tool_name, 1, answer)]
    /\ UNCHANGED <<quoteVars, lineVars, viewVars>>

\* The answer of the gateway to the request a handler is suspended on.
ServeAnswer(surface, answer) ==
    /\ ~IsNone(responses[surface])
    /\ Get(responses[surface]).pc = "requests"
    /\ LET r == Get(responses[surface])
       IN  responses' = [responses EXCEPT ![surface] = Proceed(surface, r.tool, r.k, answer)]
    /\ UNCHANGED <<quoteVars, lineVars, viewVars>>

\* A request for crm_create_contract: its one POST, answered.
ServeCreateContract(surface, kwargs, ok) ==
    /\ Free(surface)
    /\ CreateContractEffect(kwargs, ok)
    /\ responses' = [responses EXCEPT ![surface] =
                        Answered(surface, "crm_create_contract",
                                 CreateContractOutcome(kwargs, ok))]
    /\ UNCHANGED <<quotes, quoteSeq, calls, lineVars, viewVars>>

\* A request for a tool that sends a message, up to the answer of the GET of
\* its handler: it is answered there unless a request goes out to the LINE API.
ServeLine(surface, tool_name, args, fetch) ==
    LET handler == HandlerOf[tool_name]
        r == LineHandlerRun(handler, args, fetch, lineToken, "200")
    IN  /\ Free(surface)
        /\ tool_name \in MCP_TOOLS
        /\ handler \in LineHandlers
        /\ IF AwaitsPush(r)
             THEN /\ responses' = [responses EXCEPT ![surface] =
                                      Req(tool_name, "push", 2,
                                          Some([args |-> args, fetch |-> fetch]),
                                          None, None)]
                  /\ UNCHANGED pushes
             ELSE /\ responses' = [responses EXCEPT ![surface] =
                                      Answered(surface, tool_name, ReminderOutcome(r))]
                  /\ pushes' = pushes \o r.pushed
        /\ UNCHANGED <<payments, lineToken, bulk, outcomes, reminder, quoteVars, viewVars>>

\* The answer of the LINE API to the push a handler is suspended on.
ServePush(surface, outcome) ==
    /\ ~IsNone(responses[surface])
    /\ Get(responses[surface]).pc = "push"
    /\ LET q == Get(responses[surface])
           c == Get(q.call)
           r == LineHandlerRun(HandlerOf[q.tool], c.args, c.fetch, lineToken, outcome)
       IN  /\ responses' = [responses EXCEPT ![surface] =
                               Answered(surface, q.tool, ReminderOutcome(r))]
           /\ pushes' = pushes \o r.pushed
    /\ UNCHANGED <<payments, lineToken, bulk, outcomes, reminder, quoteVars, viewVars>>

InitRegIdle == responses = [s \in Surfaces |-> None]

InitListIdle == listing = None

\* ------------------------------------------------------------ specification
InitQuotes ==
    /\ quotes = <<>>
    /\ quoteSeq = 0
    /\ contracts = <<>>
    /\ calls = [c \in CallIds |-> IdleCall]
    /\ last = Step("none", 0, "", {})

\* The quote of the specification's scenario: one item of 1000, discount 100.
CreateArgs ==
    { [ items |-> <<[amount |-> 1000]>>, discount_amount |-> 100,
        deposit_amount |-> 2000, contract_months |-> 12,
        proposed_start_date |-> None ] }

\* Field maps handed to update_quote: a status (one of them no status of the
\* lifecycle) and a field outside the allow-list.
UpdateMaps ==
    {[status |-> s] : s \in {"accepted", "void"}} \cup {[converted_contract_id |-> 0]}

\* Statuses handed to update_quote_status: three of the lifecycle and one that
\* is none of valid_statuses.
StatusArgs == {"draft", "accepted", "converted", "void"}

\* convert_quote_to_contract(quote_id) with every optional argument left out.
ConvertArgs ==
    { [start_date |-> None, end_date |-> None, monthly_rent |-> None,
       deposit_amount |-> None] }

DoCreateQuote == \E a \in CreateArgs, ok \in BOOLEAN : CreateQuote(a, ok)
DoUpdateQuote == \E q \in QuoteIds, u \in UpdateMaps, ok \in BOOLEAN : UpdateQuote(q, u, ok)
DoUpdateQuoteStatus ==
    \E q \in QuoteIds, s \in StatusArgs, ok \in BOOLEAN : UpdateQuoteStatus(q, s, None, ok)
DoDeleteRead == \E c \in CallIds, q \in QuoteIds, ok \in BOOLEAN : DeleteRead(c, q, ok)
DoDeleteRemove == \E c \in CallIds, ok \in BOOLEAN : DeleteRemove(c, ok)
DoConvertRead ==
    \E c \in CallIds, q \in QuoteIds, a \in ConvertArgs, ok \in BOOLEAN : ConvertRead(c, q, a, ok)
DoConvertCreate == \E c \in CallIds, ok \in BOOLEAN : ConvertCreate(c, ok)
DoConvertPatch == \E c \in CallIds, ok \in BOOLEAN : ConvertPatch(c, ok)

Init == InitQuotes /\ InitLineIdle /\ InitRegIdle /\ InitListIdle

Next ==
    \/ DoCreateQuote
    \/ DoUpdateQuote
    \/ DoUpdateQuoteStatus
    \/ DoDeleteRead
    \/ DoDeleteRemove
    \/ DoConvertRead
    \/ DoConvertCreate
    \/ DoConvertPatch

vars == <<quoteVars, lineVars, regVars, viewVars>>

Spec == Init /\ [][Next]_vars

\* ---------------------------------------------- specification of the amounts
\* create_quote and update_quote over a range of items and discounts.
ItemLists ==
    { <<>>,
      <<[amount |-> 1000]>>,
      <<[amount |-> 5], [name |-> "setup"]>>,
      <<[amount |-> 1000], [amount |-> 5]>> }

Discounts == {0, 100}

CreateArgsMoney ==
    [ items : ItemLists, discount_amount : Discounts, deposit_amount : {2000},
      contract_months : {12}, proposed_start_date : {None} ]

UpdateMapsMoney ==
    {[items |-> l] : l \in ItemLists}
    \cup {[discount_amount |-> d] : d \in Discounts}
    \cup {[items |-> l, discount_amount |-> d] : l \in ItemLists, d \in Discounts}
    \cup {[items |-> l, total_amount |-> 1] : l \in ItemLists}
    \cup {[internal_notes |-> Some("call back")], [converted_contract_id |-> 7]}

DoCreateQuoteMoney == \E a \in CreateArgsMoney, ok \in BOOLEAN : CreateQuote(a, ok)
DoUpdateQuoteMoney ==
    \E q \in QuoteIds, u \in UpdateMapsMoney, ok \in BOOLEAN : UpdateQuote(q, u, ok)

NextMoney ==
    \/ DoCreateQuoteMoney
    \/ DoUpdateQuoteMoney

SpecMoney == Init /\ [][NextMoney]_vars

\* ------------------------------------------ specification of the derivation
\* One conversion of an accepted quote, over a range of totals, months, proposed
\* dates and caller arguments.
Months == {0, 2, 12}

CreateArgsDerive ==
    [ items : ItemLists \ {<<>>}, discount_amount : Discounts, deposit_amount : {2000},
      contract_months : Months, proposed_start_date : {None, Some(Day50)} ]

ConvertArgsDerive ==
    [ start_date : {None, Some(Day10), Some(Day10Noon)},
      end_date : {None, Some(Day400)},
      monthly_rent : {None, Some(0), Some(80)},
      deposit_amount : {None, Some(0)} ]

DoCreateQuoteDerive == \E a \in CreateArgsDerive : CreateQuote(a, TRUE)
DoAccept == \E q \in QuoteIds : UpdateQuoteStatus(q, "accepted", None, TRUE)
DoConvertReadDerive ==
    \E q \in QuoteIds, a \in ConvertArgsDerive, ok \in BOOLEAN : ConvertRead(1, q, a, ok)

NextDerive ==
    \/ DoCreateQuoteDerive
    \/ DoAccept
    \/ DoConvertReadDerive
    \/ DoConvertCreate
    \/ DoConvertPatch

SpecDerive == Init /\ [][NextDerive]_vars

\* ------------------------------------------- specification of the lifecycle
\* One quote taken through every status, with notes and without, updated with
\* field maps that mix keys on and off the allow-list, and converted once.

\* The statuses asked for: the seven of the docstring, one that is none of
\* them and one of them in the wrong case.
StatusArgsAll ==
    { "draft", "sent", "viewed", "accepted", "rejected", "expired", "converted",
      "void", "SENT" }
NotesArgs == {None, Some(""), Some("called")}

UpdateMapsFields ==
    { [status |-> "sent", converted_contract_id |-> 7, id |-> 9],
      [converted_contract_id |-> 7, converted_at |-> Now, sent_at |-> Now, id |-> 9] }

DoSetStatus ==
    \E q \in QuoteIds, s \in StatusArgsAll, notes \in NotesArgs, ok \in BOOLEAN :
        UpdateQuoteStatus(q, s, notes, ok)
DoUpdateFields ==
    \E q \in QuoteIds, u \in UpdateMapsFields, ok \in BOOLEAN : UpdateQuote(q, u, ok)
DoConvertReadOnce ==
    \E q \in QuoteIds, a \in ConvertArgs, ok \in BOOLEAN : ConvertRead(1, q, a, ok)

NextLifecycle ==
    \/ DoCreateQuote
    \/ DoSetStatus
    \/ DoUpdateFields
    \/ DoConvertReadOnce
    \/ DoConvertCreate
    \/ DoConvertPatch

SpecLifecycle == Init /\ [][NextLifecycle]_vars

\* ------------------------------------------ specification of the listing
\* The rows the view returns: the stored status and the flag is_expired the
\* view computes.
ViewRows ==
    [ status : {"draft", "sent", "viewed", "accepted", "rejected", "expired", "converted"},
      is_expired : BOOLEAN ]

ViewRowLists == UNION { [1..n -> ViewRows] : n \in 0..MaxRows }

\* One call in a run: the counters depend on nothing a former call left.
DoListQuotes ==
    /\ IsNone(listing)
    /\ \E rows \in ViewRowLists, ok \in BOOLEAN : ListQuotes(rows, ok)

NextList ==
    \/ DoListQuotes

SpecList == Init /\ [][NextList]_vars

\* ----------------------------------------- specification of the contracts
\* Contracts created both ways: by one conversion, over the caller's arguments,
\* and directly, a status among the keywords of some calls.
ContractKwargs ==
    [ start_date : {Day10}, end_date : {Day400}, monthly_rent : {80},
      deposit : {0, 2000} ]
    \cup [ start_date : {Day10}, end_date : {Day400}, monthly_rent : {80},
           deposit : {0}, status : {"active", "pending_sign"} ]

ConvertKwargsBad ==
    { [status |-> "draft"], [start_date |-> Some(Day10), status |-> "active"] }

DoCreateContract == \E kwargs \in ContractKwargs, ok \in BOOLEAN : CreateContract(kwargs, ok)
DoConvertKeywords == \E q \in QuoteIds, kwargs \in ConvertKwargsBad : ConvertKeywords(q, kwargs)

NextContracts ==
    \/ DoCreateQuote
    \/ DoAccept
    \/ DoConvertReadDerive
    \/ DoConvertCreate
    \/ DoConvertPatch
    \/ DoConvertKeywords
    \/ DoCreateContract

SpecContracts == Init /\ [][NextContracts]_vars

\* ------------------------------------- specification of sequential calls
\* Calls that never overlap: a call starts only when no other is in flight.
Quiet == \A c \in CallIds : calls[c].pc \in {"idle", "done"}

SeqUpdateQuote == Quiet /\ DoUpdateQuote
SeqUpdateQuoteStatus == Quiet /\ DoUpdateQuoteStatus
SeqConvertRead == Quiet /\ DoConvertRead

NextSequential ==
    \/ DoCreateQuote
    \/ SeqUpdateQuote
    \/ SeqUpdateQuoteStatus
    \/ SeqConvertRead
    \/ DoConvertCreate
    \/ DoConvertPatch

SpecSequential == Init /\ [][NextSequential]_vars

\* ------------------------------------------ specification of the retries
\* A quote accepted once and converted by calls that follow one another, over
\* the caller's arguments, with no other call in between.
ConvertArgsRetry ==
    [ start_date : {None, Some(Day10)}, end_date : {None},
      monthly_rent : {None, Some(80)}, deposit_amount : {None} ]

SeqConvertReadRetry ==
    /\ Quiet
    /\ \E c \in CallIds, q \in QuoteIds, a \in ConvertArgsRetry, ok \in BOOLEAN :
          ConvertRead(c, q, a, ok)

NextRetry ==
    \/ DoCreateQuote
    \/ DoAccept
    \/ SeqConvertReadRetry
    \/ DoConvertCreate
    \/ DoConvertPatch

SpecRetry == Init /\ [][NextRetry]_vars

\* ------------------------------------------- specification of the bulk run
InitBulk ==
    /\ InitQuotes
    /\ InitRegIdle
    /\ InitListIdle
    /\ payments \in PaymentLists
    /\ lineToken \in BOOLEAN
    /\ bulk = IdleBulk
    /\ pushes = <<>>
    /\ outcomes = <<>>
    /\ reminder = None

DoBulkFetch == \E dry_run \in BOOLEAN, ok \in BOOLEAN : BulkFetch(dry_run, ok)
DoBulkRefetch ==
    /\ bulk.pc = "loop"
    /\ \E refetch \in Refetches(bulk.list[bulk.i]) : BulkRefetch(refetch)
DoBulkPush == \E outcome \in LineOutcomes : BulkPush(outcome)

NextBulk ==
    \/ DoBulkFetch
    \/ DoBulkRefetch
    \/ DoBulkPush

SpecBulk == InitBulk /\ [][NextBulk]_vars

\* ------------------------------------ specification of the single reminders
\* The reminder types a caller passes: the three of the signature and another.
ReminderTypes == {"upcoming", "due", "overdue", "final"}

InitReminders ==
    /\ InitQuotes
    /\ InitRegIdle
    /\ InitListIdle
    /\ payments = <<>>
    /\ lineToken \in BOOLEAN
    /\ bulk = IdleBulk
    /\ pushes = <<>>
    /\ outcomes = <<>>
    /\ reminder = None

\* One call in a run: the calls are independent of one another.
DoRenewalReminder ==
    /\ IsNone(reminder)
    /\ \E fetch \in RenewalFetches(1) : DoSendRenewalReminder(1, fetch)
DoPaymentReminder ==
    /\ IsNone(reminder)
    /\ \E id \in 1..2, reminder_type \in ReminderTypes, status \in StatusOpts :
          \E fetch \in Refetches(PaymentRow(id, Some("U1"), status)) :
              DoSendPaymentReminder(id, reminder_type, fetch)
DoLineMessage ==
    /\ IsNone(reminder)
    /\ \E fetch \in CustomerFetches(1) : DoSendLineMessage(1, "hello", fetch)
DoLinePush == \E outcome \in LineOutcomes : LineHandlerPush(outcome)

NextReminders ==
    \/ DoRenewalReminder
    \/ DoPaymentReminder
    \/ DoLineMessage
    \/ DoLinePush

SpecReminders == InitReminders /\ [][NextReminders]_vars

\* ------------------------------------------- specification of the registry
\* Names asked for: the catalog, and two names that are not in it (the second
\* a handler of quote_tools.py, which this catalog does not list).
ToolNames == MCP_TOOLS \cup {"no_such_tool", "quote_convert_to_contract"}

\* The arguments and the rows read of the tools that send a message.
LineCalls(tool_name) ==
    IF tool_name = "line_send_message"
      THEN { [args |-> [customer_id |-> 1, message |-> "hello"], fetch |-> f] :
               f \in CustomerFetches(1) }
    ELSE IF tool_name = "line_send_payment_reminder"
      THEN { [args |-> [payment_id |-> 1, reminder_type |-> "due"], fetch |-> f] :
               f \in Refetches(PaymentRow(1, Some("U1"), "upcoming")) }
    ELSE { [args |-> [contract_id |-> 1], fetch |-> f] :
             f \in { g \in RenewalFetches(1) :
                       g.kind = "row" => g.row.days_remaining \in {None, Some(5)} } }

\* create_contract as the registry calls it: with its parameters, or with a
\* keyword it does not take.
RegistryContractKwargs ==
    { [start_date |-> Day10, end_date |-> Day400, monthly_rent |-> 80, deposit |-> 0],
      [ start_date |-> Day10, end_date |-> Day400, monthly_rent |-> 80, deposit |-> 0,
        status |-> "active" ] }

\* One request on each surface in a run: the requests of a surface are
\* independent of one another.
DoServeUnknown ==
    \E surface \in Surfaces, tool \in ToolNames \ MCP_TOOLS :
        IsNone(responses[surface]) /\ ServeUnknown(surface, tool)
DoServeRaise ==
    \E surface \in Surfaces, tool \in MCP_TOOLS,
       outcome \in {ArgumentMismatch, InvalidArguments} :
        IsNone(responses[surface]) /\ ServeRaise(surface, tool, outcome)
DoServeGateway ==
    \E surface \in Surfaces, tool \in MCP_TOOLS, answer \in GatewayAnswers :
        IsNone(responses[surface]) /\ ServeGateway(surface, tool, answer)
DoServeAnswer ==
    \E surface \in Surfaces, answer \in GatewayAnswers : ServeAnswer(surface, answer)
DoServeCreateContract ==
    \E surface \in Surfaces, kwargs \in RegistryContractKwargs, ok \in BOOLEAN :
        IsNone(responses[surface]) /\ ServeCreateContract(surface, kwargs, ok)
DoServeLine ==
    \E surface \in Surfaces,
       tool \in {t \in MCP_TOOLS : HandlerOf[t] \in LineHandlers} :
        \E c \in LineCalls(tool) :
            IsNone(responses[surface]) /\ ServeLine(surface, tool, c.args, c.fetch)
DoServePush ==
    \E surface \in Surfaces, outcome \in LineOutcomes : ServePush(surface, outcome)

NextRegistry ==
    \/ DoServeUnknown
    \/ DoServeRaise
    \/ DoServeGateway
    \/ DoServeAnswer
    \/ DoServeCreateContract
    \/ DoServeLine
    \/ DoServePush

\* The registry starts with nothing served, the LINE token set or not.
InitRegistry == InitReminders

SpecRegistry == InitRegistry /\ [][NextRegistry]_vars

\* ===================================================================== claims
ConvertCalls == {c \in CallIds : calls[c].op = "convert"}
DeleteCalls == {c \in CallIds : calls[c].op = "delete"}
Done(c) == calls[c].pc = "done"
HasRead(c) == ~IsNone(calls[c].quote)
ReadQuote(c) == Get(calls[c].quote)

\* The contracts created by conversions of quote q.
ContractsOf(q) == {i \in 1..Len(contracts) : contracts[i].quote_id = q}

\* C1: at most one contract is ever created from the same quote, whatever the
\* interleaving of the conversions, updates, status updates and deletes.
C1_AtMostOneContractPerQuote ==
    \A q \in QuoteIds : Cardinality(ContractsOf(q)) <= 1

\* C2: a conversion that read the quote and met no gateway failure reports
\* success if and only if the row it read had status accepted and no
\* converted_contract_id; a successful one has created a contract of that quote,
\* and only a conversion that read such a row ever issues a write.
C2_ConvertSucceedsIffAcceptedAndUnset ==
    \A c \in ConvertCalls :
        /\ (Done(c) /\ HasRead(c) /\ calls[c].result # "Raised") =>
             /\ (calls[c].result = "Success") <=>
                  (ReadQuote(c).status = "accepted"
                     /\ ReadQuote(c).converted_contract_id = 0)
             /\ (calls[c].result = "Success") =>
                  (calls[c].cid \in ContractsOf(calls[c].qid))
        /\ (calls[c].writes > 0) =>
             (HasRead(c) /\ ReadQuote(c).status = "accepted"
                /\ ReadQuote(c).converted_contract_id = 0)

C2_Witness ==
    \E c \in ConvertCalls :
        /\ Done(c) /\ calls[c].result = "Success"
        /\ calls[c].cid \in ContractsOf(calls[c].qid)

\* C3 as stated: a conversion issued right after a successful conversion of the
\* same quote, and reading the quote, fails with AlreadyConverted without writing.
C3_SecondConvertAlreadyConverted ==
    \A c \in ConvertCalls :
        (Done(c) /\ calls[c].afterConv /\ HasRead(c)) =>
            (calls[c].result = "AlreadyConverted" /\ calls[c].writes = 0)

\* C3 amended: a conversion issued right after a successful conversion of the
\* same quote never succeeds and issues no write; when it reads the quote, the
\* status it reads is converted and it fails at the status check (InvalidState),
\* not at the already-converted check.
C3_SecondConvertInvalidState ==
    \A c \in ConvertCalls :
        calls[c].afterConv =>
            /\ calls[c].writes = 0
            /\ calls[c].pc \in {"done"}
            /\ calls[c].result # "Success"
            /\ HasRead(c) =>
                 /\ ReadQuote(c).status = "converted"
                 /\ ReadQuote(c).converted_contract_id # 0
                 /\ calls[c].result = "InvalidState"

C3_Witness ==
    \E c, d \in ConvertCalls :
        /\ c # d /\ calls[d].qid = calls[c].qid
        /\ Done(d) /\ calls[d].result = "Success"
        /\ Done(c) /\ calls[c].afterConv /\ HasRead(c)
        /\ calls[c].result = "InvalidState"

\* The invariant of the amounts on a quote row.
MoneyOK(row) ==
    /\ row.subtotal = SumAmounts(row.items)
    /\ row.total_amount = row.subtotal - row.discount_amount

\* C4: after create_quote, and after an update_quote whose field map touches
\* items or discount_amount, the stored row has subtotal = the sum of the item
\* amounts and total_amount = subtotal - discount_amount.
C4_TotalsAfterWrite ==
    ( /\ last.result = "Success"
      /\ last.qid \in DOMAIN quotes
      /\ \/ last.op = "create_quote"
         \/ /\ last.op = "update_quote"
            /\ last.keys \cap {"items", "discount_amount"} # {} )
    => MoneyOK(quotes[last.qid])

\* C5: the status guard of delete_quote.  A delete of an existing quote
\* succeeds, the row being gone, only when the status it read is draft; on any
\* other status it returns the failure and has issued no delete or other
\* write, the quotes being left as they were; on draft it is never refused: it
\* issues the DELETE request, whose answer makes it succeed, and ends
\* otherwise only in the upstream failure of that one request.
C5_DeleteSucceedsIffDraft ==
    /\ [](\A c \in DeleteCalls :
             /\ (calls[c].result = "Success") =>
                  /\ HasRead(c) /\ ReadQuote(c).status = "draft"
                  /\ calls[c].qid \notin DOMAIN quotes
             /\ (HasRead(c) /\ ReadQuote(c).status # "draft") =>
                  (Done(c) /\ calls[c].result = "InvalidState" /\ calls[c].writes = 0)
             /\ (HasRead(c) /\ ReadQuote(c).status = "draft") =>
                  /\ calls[c].result \in {"", "Success", "Raised"}
                  /\ (calls[c].result = "Raised") => (calls[c].writes = 1)
                  /\ (~Done(c)) =>
                       ENABLED ( /\ DeleteRemove(c, TRUE)
                                 /\ calls'[c].result = "Success"
                                 /\ calls[c].qid \notin DOMAIN quotes' )
             /\ (calls[c].writes > 0) => (HasRead(c) /\ ReadQuote(c).status = "draft"))
    /\ [][(last'.op = "delete_quote" /\ last'.result = "InvalidState") =>
             UNCHANGED quotes]_vars

\* One delete that read draft and removed the row, one that read another
\* status and was refused.
C5_Witness ==
    /\ \E c \in DeleteCalls :
          Done(c) /\ calls[c].result = "Success" /\ ReadQuote(c).status = "draft"
    /\ \E c \in DeleteCalls :
          Done(c) /\ calls[c].result = "InvalidState" /\ HasRead(c)

\* r is the integer nearest to n / d, the even one of the two on a tie.
NearestTiesToEven(r, n, d) ==
    LET twice == IF 2 * (r * d - n) >= 0 THEN 2 * (r * d - n) ELSE 2 * (n - r * d)
    IN  /\ twice <= d
        /\ (twice = d) => (r % 2 = 0)

\* C10: for a quote of contract_months >= 1, the contract a conversion creates
\* has monthly_rent = round(total_amount / contract_months) when the caller gave
\* none, and end_date = start_date + contract_months * 30 days when the caller
\* gave none; a monthly_rent or end_date the caller gave is used unchanged.
C10_DerivedRentAndEndDate ==
    \A c \in ConvertCalls :
        (calls[c].cid # 0 /\ ReadQuote(c).contract_months >= 1) =>
            LET k == contracts[calls[c].cid]
                q == ReadQuote(c)
                a == Get(calls[c].args)
            IN  /\ IF IsNone(a.monthly_rent)
                     THEN NearestTiesToEven(k.monthly_rent, q.total_amount,
                                            q.contract_months)
                     ELSE k.monthly_rent = Get(a.monthly_rent)
                /\ IF IsNone(a.end_date)
                     THEN /\ k.end_date.day = k.start_date.day + q.contract_months * 30
                          /\ ~k.end_date.time
                     ELSE k.end_date = Get(a.end_date)
                /\ (q.total_amount = 900 /\ q.contract_months = 12
                      /\ IsNone(a.monthly_rent)) => (k.monthly_rent = 75)

\* The scenario of the specification: total 900 over 12 months, nothing given.
C10_Witness ==
    \E c \in ConvertCalls :
        /\ calls[c].cid # 0
        /\ ReadQuote(c).total_amount = 900 /\ ReadQuote(c).contract_months = 12
        /\ IsNone(Get(calls[c].args).monthly_rent) /\ IsNone(Get(calls[c].args).end_date)
        /\ contracts[calls[c].cid].monthly_rent = 75
        /\ contracts[calls[c].cid].end_date.day = contracts[calls[c].cid].start_date.day + 360

\* The payments fetched that have a LINE account bound.
BoundPayments == {i \in 1..Len(payments) : payments[i].line_user_id # None}

\* The ids of the reminders of the run that did not succeed, in call order.
FailedOutcome(o) == ~o.success
FailedIds == [i \in 1..Len(SelectSeq(outcomes, FailedOutcome)) |->
                 SelectSeq(outcomes, FailedOutcome)[i].payment_id]

\* The entries of the error list of a live report (None stands for no entry).
ReportErrors(rep) == IF IsNone(rep.errors) THEN <<>> ELSE Get(rep.errors)

\* C6: a live bulk run never aborts because of one item: once a reminder has
\* been attempted, the run goes through every payment and ends with a report.
C6_LiveRunNeverAborts ==
    (bulk.pc = "done" /\ ~bulk.dry_run /\ outcomes # <<>>) =>
        (bulk.result = "Report" /\ Len(outcomes) = Len(bulk.list))

\* C7: in the report of a live run, sent_count + failed_count is the number of
\* fetched payments with a bound address, the counts are those of the reminders
\* that succeeded and failed, and the error list holds one entry per failed
\* reminder, with its payment id, in iteration order.
C7_LiveReportCounts ==
    (bulk.result = "Report" /\ ~bulk.dry_run) =>
        LET rep == Get(bulk.report)
            errs == ReportErrors(rep)
        IN  /\ rep.sent_count + rep.failed_count = Cardinality(BoundPayments)
            /\ rep.sent_count = Cardinality({i \in 1..Len(outcomes) : outcomes[i].success})
            /\ rep.failed_count = Len(errs)
            /\ [i \in 1..Len(errs) |-> errs[i].payment_id] = FailedIds
            /\ \A i, j \in 1..Len(errs) : i < j => errs[i].payment_id < errs[j].payment_id

\* Three overdue payments, the second reminder failing: 2 sent, 1 failed, and
\* the error list names payment 2 alone.
C7_Witness ==
    /\ bulk.result = "Report" /\ ~bulk.dry_run
    /\ Len(payments) = 3
    /\ \A i \in 1..3 : payments[i].payment_status = "overdue" /\ HasLine(payments[i])
    /\ [i \in 1..Len(outcomes) |-> outcomes[i].success] = <<TRUE, FALSE, TRUE>>
    /\ Get(bulk.report).sent_count = 2 /\ Get(bulk.report).failed_count = 1
    /\ Len(ReportErrors(Get(bulk.report))) = 1
    /\ ReportErrors(Get(bulk.report))[1].payment_id = 2

\* C8: a dry run makes no send_payment_reminder and no send_line_push call, and
\* the would_send it returns is the number of fetched payments with a bound
\* address.
C8_DryRunSendsNothing ==
    (bulk.pc # "idle" /\ bulk.dry_run) =>
        /\ pushes = <<>>
        /\ outcomes = <<>>
        /\ bulk.pc = "done"
        /\ (bulk.result = "Report") =>
             /\ "would_send" \in DOMAIN Get(bulk.report)
             /\ Get(bulk.report).would_send = Cardinality(BoundPayments)

C8_Witness ==
    /\ bulk.dry_run /\ bulk.result = "Report"
    /\ Get(bulk.report).would_send = 2
    /\ Len(payments) = 3

Served(s) == ~IsNone(responses[s]) /\ Get(responses[s]).pc = "done"
Request(s) ==
    [ tool |-> Get(responses[s]).tool,
      outcome |-> Get(Get(responses[s]).outcome),
      response |-> Get(Get(responses[s]).response) ]

\* What C9 says of one surface: an error goes to the caller if and only if the
\* tool is not in the catalog, no handler being invoked then; a handler's error
\* comes back as {success: false, error: message}, a return as
\* {success: true, result: value}.
RegistryContract(s) ==
    Served(s) =>
        LET r == Request(s)
        IN  /\ r.response.raised <=> (r.tool \notin MCP_TOOLS)
            /\ (r.tool \notin MCP_TOOLS) => ~r.response.invoked
            /\ (r.tool \in MCP_TOOLS /\ r.outcome.kind = "raise") =>
                 /\ ~r.response.raised
                 /\ DOMAIN r.response.body = {"success", "tool", "error"}
                 /\ r.response.body.success = FALSE
                 /\ r.response.body.error = Str(r.outcome.message)
            /\ (r.tool \in MCP_TOOLS /\ r.outcome.kind = "return") =>
                 /\ ~r.response.raised
                 /\ DOMAIN r.response.body = {"success", "tool", "result"}
                 /\ r.response.body.success = TRUE
                 /\ r.response.body.result = r.outcome.value

\* C9 as stated: the contract holds on both invocation surfaces.
C9_RegistryContractBothSurfaces == \A s \in Surfaces : RegistryContract(s)

\* C9 amended: the contract holds on /tools/call; /mcp/tools/call lets no error
\* go to its caller: an unknown tool comes back as a content block with
\* isError = true (no handler invoked), a handler's error as isError = true with
\* the message, a return as isError = false with the text of the value.
C9_RegistryContractPerSurface ==
    /\ RegistryContract("tools_call")
    /\ Served("mcp_tools_call") =>
         LET r == Request("mcp_tools_call")
             text == r.response.body.content[1].text
         IN  /\ ~r.response.raised
             /\ r.response.invoked <=> (r.tool \in MCP_TOOLS)
             /\ r.response.body.isError <=>
                  (r.tool \notin MCP_TOOLS \/ r.outcome.kind = "raise")
             /\ (r.tool \notin MCP_TOOLS) => (text = <<"Error: Tool not found", r.tool>>)
             /\ (r.tool \in MCP_TOOLS /\ r.outcome.kind = "raise") =>
                  (text = <<"Error: ", Str(r.outcome.message)>>)
             /\ (r.tool \in MCP_TOOLS /\ r.outcome.kind = "return") =>
                  (text = Str(r.outcome.value))

\* An unknown tool on one surface, a handler that raised on the other.
C9_Witness ==
    /\ Served("tools_call") /\ Served("mcp_tools_call")
    /\ Request("tools_call").tool \in MCP_TOOLS
    /\ Request("tools_call").outcome = ArgumentMismatch
    /\ Request("tools_call").response.body.success = FALSE
    /\ Request("mcp_tools_call").tool \notin MCP_TOOLS
    /\ Request("mcp_tools_call").response.body.isError

\* The single reminder of a tool that handed a message to send_line_push.
Sent(tool) ==
    /\ ~IsNone(reminder)
    /\ Get(reminder).tool = tool
    /\ Get(reminder).pc = "done"
    /\ Get(reminder).pushed # <<>>
SentText == Get(reminder).pushed[1].text
SentRow == Get(reminder).fetch.row

\* C11: the renewal notice carries the urgent label exactly for
\* days_remaining <= 7, the important label exactly for 7 < days_remaining <= 30
\* and the informational label exactly for days_remaining > 30: one label for
\* every integer, 5 and 7 urgent, 8, 20 and 30 important, 31 and 45
\* informational.
C11_RenewalTierThresholds ==
    Sent("send_renewal_reminder") =>
        LET d == Get(SentRow.days_remaining)
            u == SentText.urgency
        IN  /\ u \in {"urgent", "important", "informational"}
            /\ (u = "urgent") <=> (d <= 7)
            /\ (u = "important") <=> (7 < d /\ d <= 30)
            /\ (u = "informational") <=> (d > 30)
            /\ (d \in {5, 7}) => (u = "urgent")
            /\ (d \in {8, 20, 30}) => (u = "important")
            /\ (d \in {31, 45}) => (u = "informational")

\* A notice sent on the boundary of seven days.
C11_Witness ==
    /\ Sent("send_renewal_reminder")
    /\ Get(SentRow.days_remaining) = 7
    /\ SentText.urgency = "urgent"

\* C12: for reminder_type upcoming, due and overdue the message handed to
\* send_line_push carries the amount due and the period of the payment; for
\* overdue it carries the overdue day count as well.
C12_MessageCarriesAmountAndPeriod ==
    ( /\ Sent("send_payment_reminder")
      /\ Get(reminder).args.reminder_type \in {"upcoming", "due", "overdue"} ) =>
        /\ pushes = Get(reminder).pushed
        /\ {"amount", "period"} \subseteq DOMAIN SentText
        /\ SentText.amount = <<"$", Get(SentRow.total_due)>>
        /\ SentText.period = SentRow.payment_period
        /\ (Get(reminder).args.reminder_type = "overdue") =>
             /\ "overdue_days" \in DOMAIN SentText
             /\ SentText.overdue_days = SentRow.overdue_days

\* An overdue reminder of payment 2, sent.
C12_Witness ==
    /\ Sent("send_payment_reminder")
    /\ Get(reminder).args = [payment_id |-> 2, reminder_type |-> "overdue"]
    /\ Get(reminder).value.success
    /\ SentText.overdue_days = 2
    /\ SentText.amount = <<"$", 2000>>

\* C13: a quote becomes converted only from accepted and only by a step of
\* convert_quote_to_contract, and a converted quote stays converted.
C13_ConvertedOnlyByConversion ==
    [][\A q \in DOMAIN quotes \cap DOMAIN quotes' :
          /\ (quotes[q].status # "converted" /\ quotes'[q].status = "converted") =>
               (quotes[q].status = "accepted" /\ last'.op = "convert")
          /\ (quotes[q].status = "converted") => (quotes'[q].status = "converted")]_vars

\* The seven statuses of the lifecycle, as the claims list them.
LifecycleStatuses ==
    {"draft", "sent", "viewed", "accepted", "rejected", "expired", "converted"}

\* C14 as stated: update_quote_status fails on no status string with a
\* validation error, and writes the status it was given.
C14_AnyStatusStringAccepted ==
    (last.op = "update_quote_status") =>
        /\ last.result # "InvalidStatus"
        /\ (last.result = "Success") => (quotes[last.qid].status = last.status)

\* C14 amended: update_quote_status validates the status: a string that is
\* none of the seven statuses is refused with a validation error before any
\* request, the quote being left as it was; each of the seven is written as
\* given when the request goes through.
C14_StatusValidated ==
    [][(last'.op = "update_quote_status") =>
          /\ (last'.result = "InvalidStatus") <=> (last'.status \notin LifecycleStatuses)
          /\ (last'.result = "InvalidStatus") => (last'.keys = {} /\ UNCHANGED quotes)
          /\ (last'.result = "Success") =>
               (quotes'[last'.qid].status = last'.status)]_vars

\* A status of the wrong case refused, the quote staying in status sent.
C14_Witness ==
    /\ last.op = "update_quote_status"
    /\ last.status = "SENT"
    /\ last.result = "InvalidStatus"
    /\ 1 \in DOMAIN quotes
    /\ quotes[1].status = "sent"

\* The conversions that have patched the quote.
Patched(c) == c \in ConvertCalls /\ calls[c].result = "Success"

\* C15: a conversion that passed the two checks writes whatever the others have
\* done since: its POST adds a contract of the quote even when one exists, and
\* its PATCH points the quote at its own contract, so that after two
\* interleaved conversions two contracts exist and the quote points at the one
\* of the conversion that patched last.
C15_LaterPatchWins ==
    [][\A c \in CallIds :
          /\ (calls[c].op = "convert" /\ calls[c].pc = "create" /\ calls'[c].pc = "patch") =>
               /\ Len(contracts') = Len(contracts) + 1
               /\ contracts'[calls'[c].cid].quote_id = calls[c].qid
               /\ calls'[c].cid = Len(contracts')
          /\ (calls[c].op = "convert" /\ calls[c].pc = "patch"
                /\ calls'[c].result = "Success" /\ calls[c].qid \in DOMAIN quotes) =>
               /\ quotes'[calls[c].qid].converted_contract_id = calls[c].cid
               /\ quotes'[calls[c].qid].status = "converted"]_vars

\* Read A, read B, create A, create B, patch A, patch B: two contracts of
\* quote 1, which points at the second alone.
C15_Witness ==
    /\ Patched(1) /\ Patched(2)
    /\ calls[1].qid = 1 /\ calls[2].qid = 1
    /\ ReadQuote(1).status = "accepted" /\ ReadQuote(2).status = "accepted"
    /\ ReadQuote(1).converted_contract_id = 0 /\ ReadQuote(2).converted_contract_id = 0
    /\ calls[1].cid = 1 /\ calls[2].cid = 2
    /\ ContractsOf(1) = {1, 2}
    /\ 1 \in DOMAIN quotes
    /\ quotes[1].converted_contract_id = 2

\* C16: a conversion whose POST succeeded and whose PATCH failed has ended in
\* an error with its contract present and the quote as it was: accepted, with
\* no converted_contract_id and no converted_at; it has issued no request after
\* the PATCH.
C16_PatchFailureLeavesContract ==
    \A c \in ConvertCalls :
        (calls[c].result = "Raised" /\ calls[c].cid # 0) =>
            /\ Done(c)
            /\ calls[c].writes = 2
            /\ calls[c].cid \in ContractsOf(calls[c].qid)
            /\ contracts[calls[c].cid].by = c
            /\ calls[c].qid \in DOMAIN quotes
            /\ quotes[calls[c].qid].status = "accepted"
            /\ quotes[calls[c].qid].converted_contract_id = 0
            /\ quotes[calls[c].qid].converted_at = Null

C16_Witness ==
    /\ 1 \in ConvertCalls
    /\ calls[1].result = "Raised" /\ calls[1].cid = 1
    /\ Len(contracts) = 1
    /\ quotes[1].status = "accepted"
    /\ quotes[1].converted_contract_id = 0

\* C17: an update_quote with items and no discount_amount leaves the stored
\* discount as it is and sets total_amount to the sum of the new items minus
\* that discount; with both given, total_amount is the sum minus the discount
\* given.
C17_ItemsUpdateUsesStoredDiscount ==
    ( /\ last.op = "update_quote"
      /\ last.result = "Success"
      /\ "items" \in last.supplied ) =>
        quotes[last.qid].total_amount =
            SumAmounts(quotes[last.qid].items) - quotes[last.qid].discount_amount

\* The columns update_quote may not write, among those of the row.
Protected(row) == DOMAIN row \ allowed_fields

\* C18: update_quote sends the gateway only keys of its allow-list, so that the
\* columns outside it (converted_contract_id, converted_at, sent_at) keep their
\* values; when none of the keys supplied is on the list, and only then, the
\* call fails with NoValidFields, with no request and the quote as it was.
C18_OnlyAllowedFieldsWritten ==
    [][(last'.op = "update_quote") =>
          /\ last'.keys \subseteq allowed_fields
          /\ last'.keys \cap {"converted_contract_id", "converted_at", "sent_at", "id"} = {}
          /\ (last'.supplied \cap allowed_fields) \subseteq last'.keys
          /\ (last'.result = "NoValidFields") <=> (last'.supplied \cap allowed_fields = {})
          /\ (last'.result = "NoValidFields") => (last'.keys = {} /\ UNCHANGED quotes)
          /\ (last'.qid \in DOMAIN quotes) =>
               /\ last'.qid \in DOMAIN quotes'
               /\ \A f \in Protected(quotes[last'.qid]) :
                     quotes'[last'.qid][f] = quotes[last'.qid][f]]_vars

\* A map of a status and two keys off the list, written: the status alone went.
C18_Witness ==
    /\ last.op = "update_quote"
    /\ last.result = "Success"
    /\ last.supplied = {"status", "converted_contract_id", "id"}
    /\ last.keys = {"status"}
    /\ quotes[1].status = "sent"
    /\ quotes[1].converted_contract_id # 7

\* The timestamp column that goes with a status, if any.
StampOf(status) ==
    IF status = "sent" THEN {"sent_at"}
    ELSE IF status = "viewed" THEN {"viewed_at"}
    ELSE IF status \in {"accepted", "rejected"} THEN {"responded_at"}
    ELSE {}

\* C19: a successful update_quote_status writes the status, the one timestamp
\* that goes with it (sent_at for sent, viewed_at for viewed, responded_at for
\* accepted and rejected, none for draft, expired and converted) and, when
\* notes are given, internal_notes; every other column keeps its value.
C19_OnlyTheStampOfTheStatus ==
    [][(last'.op = "update_quote_status" /\ last'.result = "Success") =>
          LET q == last'.qid
              written == {"status"} \cup StampOf(last'.status)
          IN  /\ written \subseteq last'.keys
              /\ last'.keys \subseteq written \cup {"internal_notes"}
              /\ quotes'[q].status = last'.status
              /\ \A t \in StampOf(last'.status) : quotes'[q][t] = Now
              /\ \A f \in DOMAIN quotes[q] \ last'.keys : quotes'[q][f] = quotes[q][f]]_vars

\* A converted quote, never sent, set to viewed: viewed_at alone is stamped and
\* converted_contract_id is kept.
C19_Witness ==
    /\ last.op = "update_quote_status" /\ last.result = "Success"
    /\ last.status = "viewed"
    /\ last.keys = {"status", "viewed_at"}
    /\ quotes[1].viewed_at = Now
    /\ quotes[1].sent_at = Null
    /\ quotes[1].converted_contract_id = 1

\* C20: transitions are not restricted by the current status.  For an existing
\* quote in any status, update_quote_status to each of the seven statuses is
\* possible and succeeds, writing the status; no such call is ever refused on
\* account of the status the quote is in: it ends in success, or in the
\* upstream failure of its one request with the quote left as it was.
C20_AnyTransitionSucceeds ==
    /\ [](\A q \in DOMAIN quotes : \A s \in LifecycleStatuses :
             ENABLED ( /\ UpdateQuoteStatus(q, s, None, TRUE)
                       /\ last'.result = "Success"
                       /\ quotes'[q].status = s ))
    /\ [][(/\ last'.op = "update_quote_status"
           /\ last'.status \in LifecycleStatuses
           /\ last'.qid \in DOMAIN quotes) =>
             \/ last'.result = "Success" /\ quotes'[last'.qid].status = last'.status
             \/ last'.result = "Raised" /\ UNCHANGED quotes]_vars

\* A converted quote set back to draft.
C20_Witness ==
    /\ last.op = "update_quote_status" /\ last.result = "Success"
    /\ last.status = "draft"
    /\ quotes[1].status = "draft"
    /\ quotes[1].converted_contract_id = 1

\* The single reminder found no record, or a record with no LINE account bound.
NotFound == ~IsNone(reminder) /\ Get(reminder).fetch.kind = "empty"
NoMessagingAddress ==
    /\ ~IsNone(reminder)
    /\ Get(reminder).fetch.kind = "row"
    /\ IsNone(Get(reminder).fetch.row.line_user_id)

\* C21: a payment or renewal reminder whose record is absent, or whose record
\* has no LINE account bound, makes no send_line_push call and returns a
\* failure value (it does not raise).
C21_NoPushWithoutRecordOrAddress ==
    (NotFound \/ NoMessagingAddress) =>
        /\ Get(reminder).pc = "done"
        /\ pushes = <<>>
        /\ Get(reminder).pushed = <<>>
        /\ ~Get(reminder).raised
        /\ Get(reminder).value.success = FALSE
        /\ "error" \in DOMAIN Get(reminder).value

\* A renewal reminder of a contract whose customer has no LINE account.
C21_Witness ==
    /\ NoMessagingAddress
    /\ Get(reminder).tool = "send_renewal_reminder"
    /\ Get(reminder).fetch.row.days_remaining = Some(5)
    /\ Get(reminder).value.success = FALSE
    /\ Get(reminder).pushed = <<>>

\* The rows of the listing that are flagged expired and are in none of the
\* statuses accepted, converted, rejected.
ExpiredRows(rows) ==
    {i \in 1..Len(rows) : rows[i].is_expired
                            /\ rows[i].status \notin {"accepted", "converted", "rejected"}}

\* C22: the expired counter of a listing is the number of its rows that are
\* flagged is_expired and are in none of the statuses accepted, converted,
\* rejected: each such row counts once, and no other row counts, a row of
\* stored status expired included.
C22_ExpiredCounter ==
    (~IsNone(listing) /\ ~Get(listing).raised) =>
        Get(listing).stats.expired = Cardinality(ExpiredRows(Get(listing).quotes))

\* C23: a conversion patches the quote only after its own POST has returned
\* the contract, and with that contract's id: in every state a quote whose
\* converted_contract_id is set points at a contract that exists and that a
\* conversion of this quote created, and a conversion at its PATCH, or past it,
\* holds the id of a contract it created itself.
C23_ConvertedIdReferencesContract ==
    /\ \A q \in DOMAIN quotes :
          (quotes[q].converted_contract_id # 0) =>
              /\ quotes[q].converted_contract_id \in ContractsOf(q)
              /\ \E c \in ConvertCalls :
                    /\ calls[c].cid = quotes[q].converted_contract_id
                    /\ calls[c].result = "Success"
    /\ \A c \in ConvertCalls :
          (calls[c].pc = "patch" \/ calls[c].result = "Success") =>
              /\ calls[c].cid \in ContractsOf(calls[c].qid)
              /\ contracts[calls[c].cid].by = c

\* Two conversions interleaved, both done: the quote points at a contract that
\* one of them created.
C23_Witness ==
    /\ 1 \in DOMAIN quotes
    /\ quotes[1].status = "converted"
    /\ quotes[1].converted_contract_id = 1
    /\ Len(contracts) = 2
    /\ contracts[1].quote_id = 1
    /\ calls[1].result = "Success" /\ calls[2].result = "Success"

\* C24: the contract a conversion creates starts on the date the caller gave,
\* else on the quote's proposed start date, else today; its deposit is the one
\* the caller gave, 0 included, else the quote's.
C24_CallerValueWins ==
    \A c \in ConvertCalls :
        (calls[c].cid # 0) =>
            LET k == contracts[calls[c].cid]
                q == ReadQuote(c)
                a == Get(calls[c].args)
            IN  /\ (a.start_date # None) => (k.start_date = a.start_date[1])
                /\ (a.start_date = None /\ q.proposed_start_date # None) =>
                     (k.start_date = q.proposed_start_date[1])
                /\ (a.start_date = None /\ q.proposed_start_date = None) =>
                     (k.start_date = Today)
                /\ (a.deposit_amount # None) => (k.deposit = a.deposit_amount[1])
                /\ (a.deposit_amount = None) => (k.deposit = q.deposit_amount)

\* A caller's deposit of 0 and start date, on a quote with a deposit of 2000 and
\* a proposed start date of its own.
C24_Witness ==
    \E c \in ConvertCalls :
        /\ calls[c].cid # 0
        /\ Get(calls[c].args).deposit_amount = Some(0)
        /\ Get(calls[c].args).start_date = Some(Day10)
        /\ ReadQuote(c).deposit_amount = 2000
        /\ ReadQuote(c).proposed_start_date = Some(Day50)
        /\ contracts[calls[c].cid].deposit = 0
        /\ contracts[calls[c].cid].start_date = Day10

\* C25: a contract created by a conversion has status pending_sign and one
\* created by create_contract has status draft, whatever the caller passed; a
\* call of either with a status keyword creates nothing.
C25_CreationStatusFixed ==
    /\ [](\A i \in 1..Len(contracts) :
            /\ (contracts[i].quote_id # 0) => (contracts[i].status = "pending_sign")
            /\ (contracts[i].quote_id = 0) => (contracts[i].status = "draft"))
    /\ [][("kwargs" \in DOMAIN last' /\ "status" \in last'.kwargs) =>
             (last'.result = "TypeError" /\ contracts' = contracts)]_vars

\* One contract created directly and one by a conversion.
C25_Witness ==
    /\ Len(contracts) = 2
    /\ contracts[1].quote_id = 0 /\ contracts[1].status = "draft"
    /\ contracts[2].quote_id = 1 /\ contracts[2].status = "pending_sign"
    /\ contracts[2].deposit = 0

\* C26: when calls do not overlap, a quote that points at a contract keeps
\* pointing at that contract and gets no further contract, whatever update,
\* status update or conversion follows.
C26_SequentialConversionIsFinal ==
    [][\A q \in DOMAIN quotes :
          (quotes[q].converted_contract_id # 0) =>
              /\ q \in DOMAIN quotes'
              /\ quotes'[q].converted_contract_id = quotes[q].converted_contract_id
              /\ {i \in 1..Len(contracts') : contracts'[i].quote_id = q} = ContractsOf(q)]_vars

\* The quote was converted by the first call and reset to accepted, and the
\* second conversion was refused as already converted.
C26_Witness ==
    /\ Patched(1) /\ calls[1].cid = 1
    /\ 2 \in ConvertCalls /\ calls[2].result = "AlreadyConverted"
    /\ ReadQuote(2).status = "accepted"
    /\ quotes[1].converted_contract_id = 1
    /\ ContractsOf(1) = {1}

\* C27: a conversion that follows one whose POST went through and whose PATCH
\* failed, no conversion having succeeded before it, reads the quote accepted
\* and unconverted, is refused by neither
\* check, and creates a contract of its own; the contract of the failed call
\* stays and the quote never points at it.
C27_RetryCreatesSecondContract ==
    \A c \in ConvertCalls, d \in ConvertCalls :
        (c < d /\ calls[c].qid = calls[d].qid
               /\ calls[c].result = "Raised" /\ calls[c].cid # 0 /\ HasRead(d)
               /\ \A e \in ConvertCalls : e < d => ~Patched(e)) =>
            /\ ReadQuote(d).status = "accepted"
            /\ ReadQuote(d).converted_contract_id = 0
            /\ calls[d].result \notin {"InvalidState", "AlreadyConverted"}
            /\ calls[c].cid \in ContractsOf(calls[c].qid)
            /\ contracts[calls[c].cid].by = c
            /\ quotes[calls[c].qid].converted_contract_id # calls[c].cid
            /\ (calls[d].cid # 0) =>
                  /\ calls[d].cid # calls[c].cid
                  /\ calls[d].cid \in ContractsOf(calls[d].qid)
                  /\ contracts[calls[d].cid].by = d
            /\ Patched(d) => quotes[calls[d].qid].converted_contract_id = calls[d].cid

\* The first call left contract 1 behind, the retry created contract 2 and
\* pointed the quote at it.
C27_Witness ==
    /\ 1 \in ConvertCalls /\ calls[1].result = "Raised" /\ calls[1].cid = 1
    /\ Patched(2) /\ calls[2].cid = 2
    /\ ContractsOf(1) = {1, 2}
    /\ quotes[1].converted_contract_id = 2

\* C28: a delete that read the quote in draft and whose DELETE goes through
\* removes the row and reports success whatever the status of the row has
\* become since the read.
C28_DeleteIgnoresLaterStatus ==
    [][\A c \in CallIds :
          (calls[c].op = "delete" /\ calls[c].pc = "delete" /\ calls'[c].result = "Success") =>
              /\ ReadQuote(c).status = "draft"
              /\ calls[c].qid \notin DOMAIN quotes'
              /\ calls'[c].pc = "done"
              /\ calls'[c].writes = calls[c].writes + 1
              /\ last'.removed = (IF calls[c].qid \in DOMAIN quotes
                                    THEN quotes[calls[c].qid].status ELSE "")]_vars

\* The last step removed a quote that was accepted, for a delete that had read
\* it in draft.
C28_Witness ==
    /\ "removed" \in DOMAIN last
    /\ last.removed = "accepted"
    /\ \E c \in DeleteCalls :
          /\ calls[c].result = "Success"
          /\ calls[c].qid = last.qid
          /\ ReadQuote(c).status = "draft"
    /\ 1 \notin DOMAIN quotes

\* A request of a tool of the catalog whose handler returned a value that
\* reports a failure.
FailureByValue(s) ==
    /\ Served(s)
    /\ Request(s).tool \in MCP_TOOLS
    /\ Request(s).outcome.kind = "return"
    /\ "success" \in DOMAIN Request(s).outcome.value
    /\ ~Request(s).outcome.value.success

\* C29: the flag of the envelope tells only whether the handler raised: a
\* failure the handler reports by its return value comes back on /tools/call
\* as {success: true, tool, result: value} with result.success false, and on
\* /mcp/tools/call with isError false and the text of the value.
C29_EnvelopeFlagIgnoresValue ==
    /\ FailureByValue("tools_call") =>
         LET r == Request("tools_call")
         IN  /\ ~r.response.raised
             /\ r.response.body = [success |-> TRUE, tool |-> r.tool, result |-> r.outcome.value]
             /\ r.response.body.result.success = FALSE
    /\ FailureByValue("mcp_tools_call") =>
         LET r == Request("mcp_tools_call")
         IN  /\ ~r.response.raised
             /\ r.response.body.isError = FALSE
             /\ r.response.body.content = TextContent(Str(r.outcome.value))
    /\ \A s \in Surfaces :
          (Served(s) /\ Request(s).tool \in MCP_TOOLS) =>
              IF s = "tools_call"
                THEN Request(s).response.body.success = (Request(s).outcome.kind = "return")
                ELSE Request(s).response.body.isError = (Request(s).outcome.kind = "raise")

\* A reminder for a payment whose customer has no bound address, served on
\* /tools/call, and a record not found served on /mcp/tools/call.
C29_Witness ==
    /\ FailureByValue("tools_call")
    /\ Request("tools_call").tool = "line_send_payment_reminder"
    /\ Request("tools_call").response.body.success
    /\ FailureByValue("mcp_tools_call")
    /\ Request("mcp_tools_call").outcome.value.message = "not found"
    /\ ~Request("mcp_tools_call").response.body.isError

\* The statuses update_quote is asked to write: one of the lifecycle, one that
\* update_quote_status refuses.
StatusOnlyValues == {"accepted", "void"}

\* C30: update_quote with {status: s} is never refused for its status, sends
\* the status alone, and on success writes s and leaves every other column,
\* the three timestamps included, as it was; this is so for a status that is
\* none of valid_statuses as well, and for any quote in the table.
C30_UpdateQuoteWritesAnyStatus ==
    /\ [][(last'.op = "update_quote" /\ last'.supplied = {"status"}) =>
             /\ last'.result \in {"Success", "Raised", "NotFound"}
             /\ last'.keys = {"status"}
             /\ (last'.result = "Success") =>
                   /\ last'.qid \in DOMAIN quotes
                   /\ \A k \in DOMAIN quotes[last'.qid] \ {"status"} :
                         quotes'[last'.qid][k] = quotes[last'.qid][k]]_vars
    /\ [](\A q \in DOMAIN quotes, s \in StatusOnlyValues :
            ENABLED ( /\ UpdateQuote(q, [status |-> s], TRUE)
                      /\ last'.result = "Success"
                      /\ quotes'[q].status = s
                      /\ quotes'[q].responded_at = quotes[q].responded_at ))

\* A quote accepted through update_quote and converted, its responded_at
\* never written.
C30_Witness ==
    /\ 1 \in DOMAIN quotes
    /\ quotes[1].status = "converted"
    /\ quotes[1].converted_contract_id = 1
    /\ quotes[1].responded_at = Null
    /\ quotes[1].sent_at = Null /\ quotes[1].viewed_at = Null
    /\ Patched(1)
    /\ ReadQuote(1).status = "accepted"

====
